---- MODULE Spec2Model ----
(***************************************************************************)
(* vnpy_portfoliostrategy: the strategy engine (engine.py) and the         *)
(* strategy template (template.py) as a state machine.                     *)
(*                                                                         *)
(* One action per engine operation or event handler.  The initialization   *)
(* worker (ThreadPoolExecutor(max_workers=1)) is a process of its own with *)
(* a position, so that event dispatch interleaves with _init_strategy.     *)
(* Strategy callbacks are user code: each invocation draws a script (what  *)
(* the callback does through the template API, or that it raises).         *)
(*                                                                         *)
(* The bar generator (utility.py) and the replay of load_bars (engine.py)  *)
(* are checked on their own, over bounded tick and bar feeds.              *)
(***************************************************************************)
EXTENDS Integers, Sequences, FiniteSets, TLC

\* ---------------------------------------------------------------- bounds
MaxOrders == 1          \* order ids the gateway hands out in one run
MaxTrades == 1          \* distinct trade ids the gateway uses
MaxSteps == 9           \* handler and worker steps in one run
MaxEventSteps == 8      \* the same, in the runs that record every event
MaxQueue == 1           \* init_strategy calls waiting in the executor queue
MaxInitQueue == 2       \* the same, in the runs that record the initializations
MaxRebPos == 3          \* |position| drawn for the rebalance specification
MaxRebTarget == 5       \* |target| drawn for the rebalance specification
MaxTicks == 3           \* ticks fed to one bar generator
MaxBars == 5            \* one-minute bars fed to one bar generator
MaxBoundaries == 3      \* bar timestamps in the history load_bars replays
MaxCycles == 2          \* rebalances of one strategy in one run

Names == {"A", "B"}
Symbols == {"s1", "s2"}
\* the instruments a strategy of each name is created on: A trades both, B
\* shares s2 with it
SymbolLists(name) == IF name = "A" THEN {<<"s1", "s2">>} ELSE {<<"s2">>}
Classes == {"TrendFollowingStrategy"}
ClassNames == Classes \cup {"NoSuchStrategy"}
OrderIds == 1..MaxOrders
TradeIds == 1..MaxTrades
NoStrategy == "none"    \* orderid_strategy_map.get(...) -> None
Orphan == "removed"     \* a strategy object no longer in the registry

\* ---------------------------------------------------------------- helpers
Abs(x) == IF x < 0 THEN -x ELSE x

Min(a, b) == IF a < b THEN a ELSE b

\* dict.get(k, 0) / defaultdict(int) read of a partial map
Get(m, k) == IF k \in DOMAIN m THEN m[k] ELSE 0

\* m[k] = v
Put(m, k, v) == [x \in (DOMAIN m) \cup {k} |-> IF x = k THEN v ELSE m[x]]

\* dict.update(other)
Update(m, other) ==
    [x \in (DOMAIN m) \cup (DOMAIN other) |-> IF x \in DOMAIN other THEN other[x] ELSE m[x]]

EmptyMap == [x \in {} |-> 0]

\* Python's None
None == [none |-> TRUE]

\* dict.get(k, None)
Lookup(m, k) == IF k \in DOMAIN m THEN m[k] ELSE None

Max(a, b) == IF a > b THEN a ELSE b

Range(seq) == {seq[i] : i \in 1..Len(seq)}

\* list.remove(x): drops the first occurrence
RECURSIVE ListRemove(_, _)
ListRemove(seq, x) ==
    IF seq = <<>> THEN <<>>
    ELSE IF Head(seq) = x THEN Tail(seq)
    ELSE <<Head(seq)>> \o ListRemove(Tail(seq), x)

\* a set of order ids in ascending order (iteration order of the model)
RECURSIVE SetToSeq(_)
SetToSeq(S) ==
    IF S = {} THEN <<>>
    ELSE LET m == CHOOSE x \in S : \A y \in S : x <= y
         IN <<m>> \o SetToSeq(S \ {m})

\* ---------------------------------------------------------------- strategy object
\* StrategyTemplate.__init__: the state of a freshly constructed strategy
NewStrategy(symbols) ==
    [ vt_symbols      |-> symbols,
      inited          |-> FALSE,
      trading         |-> FALSE,
      pos_data        |-> EmptyMap,
      target_data     |-> EmptyMap,
      orders          |-> EmptyMap,
      active_orderids |-> {} ]

\* the execution context of one callback: the strategy object, the engine
\* state the template API can reach, and the requests made so far
Ctx(s, omap, count) ==
    [ s |-> s, omap |-> omap, count |-> count,
      sent |-> <<>>, cancels |-> <<>>, caught |-> FALSE ]

Req(k, direction, offset, volume) ==
    [ symbol |-> k, direction |-> direction, offset |-> offset, volume |-> volume ]

\* a send_order that does not look the contract up
EngineSendOrderNoContractCheck(c, name, req, gw) ==
    IF gw = "reject" \/ c.count >= MaxOrders
    THEN [c EXCEPT !.sent = Append(@, [req |-> req, forwarded |-> TRUE, orderid |-> 0])]
    ELSE [c EXCEPT !.sent = Append(@, [req |-> req, forwarded |-> TRUE,
                                         orderid |-> c.count + 1]),
                   !.count = c.count + 1,
                   !.omap = [@ EXCEPT ![c.count + 1] = name]]

\* StrategyEngine.send_order: gw is what the collaborators answer
\* ("nocontract": get_contract returns None; "reject": main_engine.send_order
\* returns an empty id; "accept": a fresh id).  convert_order_request is the
\* opaque collaborator transform; with lock = net = False it yields the request.
EngineSendOrder(c, name, req, gw) ==
    IF gw = "nocontract"
    THEN [c EXCEPT !.sent = Append(@, [req |-> req, forwarded |-> FALSE, orderid |-> 0])]
    ELSE IF gw = "reject" \/ c.count >= MaxOrders
    THEN [c EXCEPT !.sent = Append(@, [req |-> req, forwarded |-> TRUE, orderid |-> 0])]
    ELSE LET id == c.count + 1
         IN [c EXCEPT !.sent = Append(@, [req |-> req, forwarded |-> TRUE, orderid |-> id]),
                      !.count = id,
                      !.omap = [@ EXCEPT ![id] = name]]

\* StrategyTemplate.send_order (buy/sell/short/cover go through it): the ids
\* the engine returns join active_orderids
TemplateSendOrder(c, name, req, gw) ==
    IF c.s.trading
    THEN LET c1 == EngineSendOrder(c, name, req, gw)
             vt_orderids == (c.count + 1)..c1.count
         IN  [c1 EXCEPT !.s.active_orderids = @ \cup vt_orderids]
    ELSE c

\* StrategyEngine.cancel_order: a cancel request goes out only for an order
\* main_engine.get_order knows; `after` is the number of order requests the
\* caller had made when it went out
EngineCancelOrder(c, vt_orderid, known) ==
    IF vt_orderid \in known
    THEN [c EXCEPT !.cancels = Append(@, [orderid |-> vt_orderid, after |-> Len(c.sent)])]
    ELSE c

\* StrategyTemplate.cancel_order
TemplateCancelOrder(c, vt_orderid, known) ==
    IF c.s.trading THEN EngineCancelOrder(c, vt_orderid, known) ELSE c

RECURSIVE TemplateCancelEach(_, _, _)
TemplateCancelEach(c, ids, known) ==
    IF ids = <<>> THEN c
    ELSE TemplateCancelEach(TemplateCancelOrder(c, Head(ids), known), Tail(ids), known)

\* StrategyTemplate.cancel_all
TemplateCancelAll(c, known) ==
    TemplateCancelEach(c, SetToSeq(c.s.active_orderids), known)

RECURSIVE EngineCancelEach(_, _, _)
EngineCancelEach(c, ids, known) ==
    IF ids = <<>> THEN c
    ELSE EngineCancelEach(EngineCancelOrder(c, Head(ids), known), Tail(ids), known)

\* StrategyEngine.cancel_all
EngineCancelAll(c, known) ==
    EngineCancelEach(c, SetToSeq(c.s.active_orderids), known)

\* StrategyTemplate.get_pos: dict.get
GetPos(s, k) == Get(s.pos_data, k)

\* a get_pos reading the defaultdict by subscript, which creates the entry
TouchPosCreating(s, k) ==
    IF k \in DOMAIN s.pos_data THEN s
    ELSE [s EXCEPT !.pos_data = Put(@, k, 0)]

\* StrategyTemplate.get_pos, its effect on the strategy: dict.get creates no entry
TouchPos(s, k) == s

\* StrategyTemplate.get_target: defaultdict read by subscript
GetTarget(s, k) == Get(s.target_data, k)

\* StrategyTemplate.get_target, its effect on the strategy: the subscript
\* creates an absent key as 0
TouchTarget(s, k) ==
    IF k \in DOMAIN s.target_data THEN s
    ELSE [s EXCEPT !.target_data = Put(@, k, 0)]

\* StrategyTemplate.set_target
SetTarget(s, k, target) == [s EXCEPT !.target_data = Put(@, k, target)]

\* a rebalance whose closing leg takes the whole diff
RebalanceLegsNoSplit(k, target, pos) ==
    LET diff == target - pos
    IN  IF diff > 0
        THEN IF pos < 0 THEN <<Req(k, "LONG", "CLOSE", diff)>>
             ELSE <<Req(k, "LONG", "OPEN", diff)>>
        ELSE IF diff < 0
        THEN IF pos > 0 THEN <<Req(k, "SHORT", "CLOSE", Abs(diff))>>
             ELSE <<Req(k, "SHORT", "OPEN", Abs(diff))>>
        ELSE <<>>

\* a rebalance that opens before it closes
RebalanceLegsOpenFirst(k, target, pos) ==
    LET diff      == target - pos
        dir       == IF diff > 0 THEN "LONG" ELSE "SHORT"
        opposite  == (diff > 0 /\ pos < 0) \/ (diff < 0 /\ pos > 0)
        closing   == IF opposite THEN Min(Abs(diff), Abs(pos)) ELSE 0
        opening   == Abs(diff) - closing
    IN  (IF opening # 0 THEN <<Req(k, dir, "OPEN", opening)>> ELSE <<>>)
        \o (IF closing # 0 THEN <<Req(k, dir, "CLOSE", closing)>> ELSE <<>>)

\* a rebalance that orders the target, not the difference to the position
RebalanceLegsToTarget(k, target, pos) ==
    IF target > 0 THEN <<Req(k, "LONG", "OPEN", target)>>
    ELSE IF target < 0 THEN <<Req(k, "SHORT", "OPEN", Abs(target))>>
    ELSE <<>>

\* StrategyTemplate.rebalance_portfolio, the body of the loop for one
\* instrument: the orders for target and pos, in submission order
RebalanceLegs(k, target, pos) ==
    LET diff == target - pos
    IN  IF diff > 0
        THEN LET cover_volume == IF pos < 0 THEN Min(diff, Abs(pos)) ELSE 0
                 buy_volume   == IF pos < 0 THEN diff - cover_volume ELSE diff
             IN  (IF cover_volume # 0 THEN <<Req(k, "LONG", "CLOSE", cover_volume)>> ELSE <<>>)
                 \o (IF buy_volume # 0 THEN <<Req(k, "LONG", "OPEN", buy_volume)>> ELSE <<>>)
        ELSE IF diff < 0
        THEN LET sell_volume  == IF pos > 0 THEN Min(Abs(diff), pos) ELSE 0
                 short_volume == IF pos > 0 THEN Abs(diff) - sell_volume ELSE Abs(diff)
             IN  (IF sell_volume # 0 THEN <<Req(k, "SHORT", "CLOSE", sell_volume)>> ELSE <<>>)
                 \o (IF short_volume # 0 THEN <<Req(k, "SHORT", "OPEN", short_volume)>> ELSE <<>>)
        ELSE <<>>

RECURSIVE SendEach(_, _, _, _)
SendEach(c, name, reqs, gw) ==
    IF reqs = <<>> THEN c
    ELSE SendEach(TemplateSendOrder(c, name, Head(reqs), gw), name, Tail(reqs), gw)

RECURSIVE RebalanceEach(_, _, _, _)
RebalanceEach(c, name, bars, gw) ==
    IF bars = <<>> THEN c
    ELSE LET k  == Head(bars)
             c1 == [c EXCEPT !.s = TouchPos(TouchTarget(@, k), k)]
             c2 == SendEach(c1, name, RebalanceLegs(k, GetTarget(c1.s, k), GetPos(c1.s, k)), gw)
         IN  RebalanceEach(c2, name, Tail(bars), gw)

\* a rebalance that cancels after it has sent
RebalancePortfolioCancelLast(c, name, bars, gw, known) ==
    TemplateCancelAll(RebalanceEach(c, name, bars, gw), known)

\* a rebalance over every instrument of the strategy
RebalancePortfolioAll(c, name, bars, gw, known) ==
    RebalanceEach(TemplateCancelAll(c, known), name, c.s.vt_symbols, gw)

\* StrategyTemplate.rebalance_portfolio(bars): bars is the key sequence of the slice
RebalancePortfolio(c, name, bars, gw, known) ==
    RebalanceEach(TemplateCancelAll(c, known), name, bars, gw)

\* an update_trade that adds the volume whatever the direction
UpdateTradeAdding(s, trade) ==
    [s EXCEPT !.pos_data = Put(@, trade.symbol, Get(@, trade.symbol) + trade.volume)]

\* StrategyTemplate.update_trade
UpdateTrade(s, trade) ==
    IF trade.direction = "LONG"
    THEN [s EXCEPT !.pos_data = Put(@, trade.symbol, Get(@, trade.symbol) + trade.volume)]
    ELSE [s EXCEPT !.pos_data = Put(@, trade.symbol, Get(@, trade.symbol) - trade.volume)]

\* an update_order that keeps a finished order in the active set
UpdateOrderKeepActive(s, order) == [s EXCEPT !.orders = Put(@, order.orderid, order.active)]

\* StrategyTemplate.update_order
UpdateOrder(s, order) ==
    [s EXCEPT !.orders = Put(@, order.orderid, order.active),
              !.active_orderids = IF ~order.active /\ order.orderid \in @
                                  THEN @ \ {order.orderid} ELSE @]

\* ---------------------------------------------------------------- callbacks
\* What one invocation of a user callback does.  "pass": nothing; "raise":
\* raises; "rebalance": set_target(symbol, target) and rebalance_portfolio(bars),
\* as the on_bars of the bundled strategies do (on_tick reaches on_bars through
\* the bar generator); "load_bars": on_init replays history, which invokes
\* on_bars through the fault boundary, on_bars doing what `inner` says.
Gw == {"accept", "reject", "nocontract"}
TargetVals == {-2, 1}
TradeVolumes == {1}

Script(kind, inner, k, target, bars, gw) ==
    [ kind |-> kind, inner |-> inner, symbol |-> k, target |-> target,
      bars |-> bars, gw |-> gw ]

PassScript == Script("pass", "pass", "s1", 0, <<>>, "accept")
RaiseScript == Script("raise", "pass", "s1", 0, <<>>, "accept")

RebalanceScripts ==
    { Script("rebalance", "pass", "s1", t, <<"s1">>, g) :
        t \in TargetVals, g \in {"accept", "reject"} }

Scripts == {PassScript, RaiseScript} \cup RebalanceScripts

\* the callbacks of A rebalance, those of B only pass or raise
ScriptsOf(name) == IF name = "A" THEN Scripts ELSE {PassScript, RaiseScript}

LoadBarsScripts ==
    { Script("load_bars", "pass", "s1", 0, <<>>, "accept"),
      Script("load_bars", "raise", "s1", 0, <<>>, "accept") }
    \cup { Script("load_bars", "rebalance", "s1", t, <<"s1">>, "accept") :
             t \in TargetVals }

InitScripts == {PassScript, RaiseScript} \cup LoadBarsScripts

\* the wrapper without its except clause: a raise leaves the flags and escapes
CallStrategyFuncNoCatch(out) ==
    [ c |-> out.c, raised |-> out.raised, escaped |-> out.raised ]

\* the wrapper clearing trading only
CallStrategyFuncKeepInited(out) ==
    [ c       |-> IF out.raised
                  THEN [out.c EXCEPT !.s.trading = FALSE, !.caught = TRUE]
                  ELSE out.c,
      raised  |-> out.raised,
      escaped |-> FALSE ]

\* StrategyEngine.call_strategy_func: out is what running func did, and whether
\* it raised; the except clause clears both flags and nothing escapes
CallStrategyFunc(out) ==
    [ c       |-> IF out.raised
                  THEN [out.c EXCEPT !.s.trading = FALSE, !.s.inited = FALSE,
                                     !.caught = TRUE]
                  ELSE out.c,
      raised  |-> out.raised,
      escaped |-> FALSE ]

\* the body of a user callback, by its script
RunRebalance(c, name, script, known) ==
    RebalancePortfolio([c EXCEPT !.s = SetTarget(@, script.symbol, script.target)],
                       name, script.bars, script.gw, known)

\* StrategyEngine.load_bars, one boundary of the replay: on_bars goes through
\* the fault boundary, so its raise does not reach on_init
LoadBars(c, name, script, known) ==
    LET inner == IF script.inner = "raise" THEN [c |-> c, raised |-> TRUE]
                 ELSE IF script.inner = "rebalance"
                 THEN [c |-> RunRebalance(c, name, script, known), raised |-> FALSE]
                 ELSE [c |-> c, raised |-> FALSE]
    IN  CallStrategyFunc(inner).c

RunScript(c, name, script, known) ==
    IF script.kind = "raise" THEN [c |-> c, raised |-> TRUE]
    ELSE IF script.kind = "rebalance"
    THEN [c |-> RunRebalance(c, name, script, known), raised |-> FALSE]
    ELSE IF script.kind = "load_bars"
    THEN [c |-> LoadBars(c, name, script, known), raised |-> FALSE]
    ELSE [c |-> c, raised |-> FALSE]

\* func(params): the template's own update_trade / update_order, or user code
RunFunc(c, name, func, arg, known) ==
    IF func = "update_trade" THEN [c |-> [c EXCEPT !.s = UpdateTrade(@, arg)], raised |-> FALSE]
    ELSE IF func = "update_order" THEN [c |-> [c EXCEPT !.s = UpdateOrder(@, arg)], raised |-> FALSE]
    ELSE RunScript(c, name, arg, known)

\* ---------------------------------------------------------------- state
VARIABLES
    strategies,            \* engine.strategies: name -> strategy object
    symbol_strategy_map,   \* instrument -> list of strategies
    orderid_strategy_map,  \* order id -> strategy
    vt_tradeids,           \* trade ids seen
    strategy_data,         \* name -> variable snapshot (in memory)
    init_queue,            \* init_executor: submitted, not yet started
    worker,                \* init_executor: the one worker thread
    order_count,           \* gateway: order ids handed out
    oms_orders,            \* main engine: order ids get_order knows
    setting_file,          \* portfolio_strategy_setting.json
    data_file,             \* portfolio_strategy_data.json
    failed,                \* history: a callback failure since the last init
    trade_calls,           \* history: update_trade calls per trade id
    last,                  \* history: what the last step did, for the steps in focus
    focus,                 \* the operations whose steps are recorded in last
    budget,                \* the steps a run may take
    steps,                 \* steps taken
    pbg,                   \* a PortfolioBarGenerator (utility.py)
    replay                 \* load_bars: the locals of one call

vars == << strategies, symbol_strategy_map, orderid_strategy_map, vt_tradeids,
           strategy_data, init_queue, worker, order_count, oms_orders,
           setting_file, data_file, failed, trade_calls, last, focus, budget, steps,
           pbg, replay >>

\* what the engine holds, without the history variables
engine == << strategies, symbol_strategy_map, orderid_strategy_map, vt_tradeids,
             strategy_data, init_queue, worker, order_count, oms_orders,
             setting_file, data_file >>

Registered == DOMAIN strategies

\* the bar slices the callbacks of a step rebalanced, by strategy
Slices(scripts) ==
    [ n \in Names |-> IF scripts[n].kind = "rebalance" THEN scripts[n].bars ELSE <<>> ]

NoSlices == [ n \in Names |-> <<>> ]

Blank ==
    [ op |-> "other", name |-> "", calls |-> <<>>, sent |-> <<>>,
      cancels |-> <<>>, raised |-> {}, caught |-> {}, escaped |-> FALSE,
      published |-> <<>>, saved |-> {}, result |-> TRUE, slices |-> NoSlices,
      key |-> 0, arg |-> <<>> ]

Last(op, name, w, result, slices) ==
    IF op \in focus
    THEN [ op |-> op, name |-> name, calls |-> w.calls, sent |-> w.sent,
           cancels |-> w.cancels, raised |-> w.raised, caught |-> w.caught,
           escaped |-> w.escaped,
           published |-> w.published, saved |-> w.saved, result |-> result,
           slices |-> slices, key |-> 0, arg |-> <<>> ]
    ELSE Blank

\* the record of a step with the arguments of the operation, in the runs
\* that record them
WithArg(l, arg) ==
    IF "inputs" \in focus /\ l.op # "other" THEN [l EXCEPT !.arg = arg] ELSE l

\* the record of an order or trade event: its owner, and the event's id
EventLast(op, owner, key, w, result) ==
    IF op \in focus
    THEN [ Last(op, owner, w, result, NoSlices) EXCEPT !.key = key ]
    ELSE Blank

\* the engine state a handler works on, with the record of what it did
World ==
    [ strategies |-> strategies, omap |-> orderid_strategy_map, count |-> order_count,
      calls |-> <<>>, sent |-> <<>>, cancels |-> <<>>, raised |-> {},
      caught |-> {}, escaped |-> FALSE, published |-> <<>>, saved |-> {} ]

Tag(name, seq) == [i \in 1..Len(seq) |-> [name |-> name, entry |-> seq[i]]]

\* call_strategy_func(strategy, func, params) on the registered strategy `name`
Invoke(w, name, func, arg) ==
    LET c0 == Ctx(w.strategies[name], w.omap, w.count)
        r  == CallStrategyFunc(RunFunc(c0, name, func, arg, oms_orders))
    IN  [ w EXCEPT !.strategies = [@ EXCEPT ![name] = r.c.s],
                   !.omap = r.c.omap,
                   !.count = r.c.count,
                   !.calls = Append(@, [name |-> name, func |-> func]),
                   !.sent = @ \o Tag(name, r.c.sent),
                   !.cancels = @ \o Tag(name, r.c.cancels),
                   !.raised = IF r.raised THEN @ \cup {name} ELSE @,
                   !.caught = IF r.c.caught THEN @ \cup {name} ELSE @,
                   !.escaped = r.escaped ]

\* the same call on a strategy object that left the registry: its state is
\* no longer observable, the call is
InvokeOrphan(w, func) ==
    [ w EXCEPT !.calls = Append(@, [name |-> Orphan, func |-> func]) ]

\* save_json: the files a handler wrote
Saved(w, files) == [ w EXCEPT !.saved = @ \cup files ]

\* StrategyEngine.put_strategy_event
PutStrategyEvent(w, name) == [ w EXCEPT !.published = Append(@, name) ]

\* save_json(data_filename, strategy_data): the names the file holds a
\* snapshot for (a step's writes are in last.saved)
Serialize(data, strats) == DOMAIN data

\* StrategyEngine.save_strategy_setting
Roster(strats) == [ n \in DOMAIN strats |-> strats[n].vt_symbols ]

FileSnapshot(pos, target) == [ kind |-> "file", pos_data |-> pos, target_data |-> target ]
LiveSnapshot == [ kind |-> "live", pos_data |-> EmptyMap, target_data |-> EmptyMap ]

\* the snapshots a previous run may have left in the data file
StoredSnapshots == { FileSnapshot([k \in {"s1"} |-> 1], [k \in {"s1"} |-> -1]) }

Remove(m, k) == [x \in (DOMAIN m) \ {k} |-> m[x]]

Idle == [ pc |-> "idle", name |-> "A", orphan |-> FALSE, raised |-> FALSE ]

\* ---------------------------------------------------------------- initial state
NoMap == [x \in {} |-> 0]

RECURSIVE AppendEach(_, _, _)
AppendEach(map, symbols, name) ==
    IF symbols = <<>> THEN map
    ELSE AppendEach([map EXCEPT ![Head(symbols)] = Append(@, name)], Tail(symbols), name)

RECURSIVE RemoveEach(_, _, _)
RemoveEach(map, symbols, name) ==
    IF symbols = <<>> THEN map
    ELSE RemoveEach([map EXCEPT ![Head(symbols)] = ListRemove(@, name)], Tail(symbols), name)

\* StrategyEngine.__init__ and init_engine: the roster of the setting file
\* added by load_strategy_setting (A, then B), the snapshot file of a previous
\* run read into strategy_data by load_strategy_data
InitEngine ==
    /\ strategies = [n \in Names |-> NewStrategy(CHOOSE l \in SymbolLists(n) : TRUE)]
    /\ symbol_strategy_map =
          AppendEach(AppendEach([k \in Symbols |-> <<>>], strategies["A"].vt_symbols, "A"),
                     strategies["B"].vt_symbols, "B")
    /\ orderid_strategy_map = [o \in OrderIds |-> NoStrategy]
    /\ vt_tradeids = {}
    /\ \E D \in {{}, {"A"}} : strategy_data \in [D -> StoredSnapshots]
    /\ init_queue = <<>>
    /\ worker = Idle
    /\ order_count = 0
    /\ oms_orders = {}
    /\ setting_file = Roster(strategies)
    /\ data_file = Serialize(strategy_data, strategies)
    /\ failed = [n \in Names |-> FALSE]
    /\ trade_calls = [t \in TradeIds |-> 0]
    /\ last = Blank
    /\ steps = 0
    /\ pbg = None
    /\ replay = None

Init == InitEngine /\ focus = {} /\ budget = MaxSteps

\* the engine state after a handler worked on w
Commit(w) ==
    /\ strategies' = w.strategies
    /\ orderid_strategy_map' = w.omap
    /\ order_count' = w.count

Failed(w) == [n \in Names |-> failed[n] \/ n \in w.caught]

\* ---------------------------------------------------------------- registry
\* an add_strategy that checks the class only
AddRefusedClassOnly(class_name, name, names) == class_name \notin Classes

\* add_strategy: the two refusals (name taken, class not found)
AddRefused(class_name, name, names) == name \in names \/ class_name \notin Classes

\* StrategyEngine.add_strategy
AddStrategy(class_name, name, symbols) ==
    /\ IF AddRefused(class_name, name, Registered)
       THEN /\ UNCHANGED << strategies, symbol_strategy_map, setting_file, failed >>
            /\ last' = WithArg(Last("add_strategy", name, World, FALSE, NoSlices), class_name)
       ELSE /\ strategies' = Put(strategies, name, NewStrategy(symbols))
            /\ symbol_strategy_map' = AppendEach(symbol_strategy_map, symbols, name)
            /\ setting_file' = Roster(strategies')
            /\ failed' = [failed EXCEPT ![name] = FALSE]
            /\ last' = WithArg(Last("add_strategy", name,
                                     PutStrategyEvent(Saved(World, {"setting"}), name),
                                     TRUE, NoSlices), class_name)
    /\ UNCHANGED << orderid_strategy_map, vt_tradeids, strategy_data, init_queue, worker,
                    order_count, oms_orders, data_file, trade_calls >>

\* a removal without its guard
RemoveRefusedNever(s) == FALSE

\* remove_strategy: the guard
RemoveRefused(s) == s.trading

\* StrategyEngine.remove_strategy
RemoveStrategy(name) ==
    /\ name \in Registered
    /\ IF RemoveRefused(strategies[name])
       THEN /\ UNCHANGED engine
            /\ last' = Last("remove_strategy", name, World, FALSE, NoSlices)
       ELSE /\ symbol_strategy_map' =
                  RemoveEach(symbol_strategy_map, strategies[name].vt_symbols, name)
            /\ orderid_strategy_map' =
                  [ o \in OrderIds |->
                      IF orderid_strategy_map[o] # name THEN orderid_strategy_map[o]
                      ELSE IF o \in strategies[name].active_orderids THEN NoStrategy
                      ELSE Orphan ]
            /\ strategies' = Remove(strategies, name)
            /\ setting_file' = Roster(strategies')
            /\ strategy_data' = Remove(strategy_data, name)
            /\ data_file' = Serialize(strategy_data', strategies')
            /\ worker' = IF worker.pc # "idle" /\ worker.name = name
                         THEN [worker EXCEPT !.orphan = TRUE] ELSE worker
            /\ UNCHANGED << vt_tradeids, init_queue, order_count, oms_orders >>
            /\ last' = Last("remove_strategy", name, Saved(World, {"setting", "data"}),
                             TRUE, NoSlices)
    /\ UNCHANGED << failed, trade_calls >>

\* ---------------------------------------------------------------- initialization
\* the submissions the executor's work queue holds at most: more where the
\* record follows the initializations
QueueCap == IF "init_strategy" \in focus THEN MaxInitQueue ELSE MaxQueue

\* an executor with a worker for every submission
WorkerFreeAlways(w) == TRUE

\* init_executor = ThreadPoolExecutor(max_workers=1): the one worker takes the
\* next submission when it has finished the one before
WorkerFree(w) == w.pc = "idle"

\* an init_strategy that starts the body itself instead of queueing it
InitStrategyInline(name) ==
    /\ name \in Registered
    /\ WorkerFree(worker)
    /\ worker' = [ pc |-> "on_init", name |-> name, orphan |-> FALSE, raised |-> FALSE ]
    /\ last' = Last("init_strategy", name, World, TRUE, NoSlices)
    /\ UNCHANGED << strategies, symbol_strategy_map, orderid_strategy_map, vt_tradeids,
                    strategy_data, init_queue, order_count, oms_orders, setting_file,
                    data_file, failed, trade_calls >>

\* StrategyEngine.init_strategy: submit to the single-worker executor
InitStrategy(name) ==
    /\ name \in Registered
    /\ Len(init_queue) < QueueCap
    /\ init_queue' = Append(init_queue, name)
    /\ last' = Last("init_strategy", name, World, TRUE, NoSlices)
    /\ UNCHANGED << strategies, symbol_strategy_map, orderid_strategy_map, vt_tradeids,
                    strategy_data, worker, order_count, oms_orders, setting_file,
                    data_file, failed, trade_calls >>

\* _init_strategy, up to the call of on_init: the lookup and the inited guard
WorkerBegin ==
    /\ WorkerFree(worker)
    /\ init_queue # <<>>
    /\ init_queue' = Tail(init_queue)
    /\ LET name == Head(init_queue)
       IN  IF name \notin Registered
           THEN /\ worker' = Idle
                /\ last' = Last("init_keyerror", name, World, FALSE, NoSlices)
           ELSE IF strategies[name].inited
           THEN /\ worker' = Idle
                /\ last' = Last("init_refused", name, World, FALSE, NoSlices)
           ELSE /\ worker' = [ pc |-> "on_init", name |-> name,
                               orphan |-> FALSE, raised |-> FALSE ]
                /\ last' = Last("init_begin", name, World, TRUE, NoSlices)
    /\ UNCHANGED << strategies, symbol_strategy_map, orderid_strategy_map, vt_tradeids,
                    strategy_data, order_count, oms_orders, setting_file, data_file,
                    failed, trade_calls >>

\* _init_strategy: call_strategy_func(strategy, strategy.on_init)
WorkerOnInit(script) ==
    /\ worker.pc = "on_init"
    /\ LET w == IF worker.orphan THEN InvokeOrphan(World, "on_init")
                ELSE Invoke(World, worker.name, "on_init", script)
       IN  /\ Commit(w)
           /\ worker' = [worker EXCEPT !.pc = "finish", !.raised = worker.name \in w.raised]
           /\ failed' = Failed(w)
           /\ last' = Last("on_init", worker.name, w, TRUE, NoSlices)
    /\ UNCHANGED << symbol_strategy_map, vt_tradeids, strategy_data, init_queue,
                    oms_orders, setting_file, data_file, trade_calls >>

\* _init_strategy, the restore of the persisted variables: pos_data and
\* target_data are merged with dict.update; a snapshot stored by
\* sync_strategy_data holds the strategy's own dicts, so merging it changes nothing
RestoreState(s, data, name) ==
    IF name \in DOMAIN data /\ data[name].kind = "file"
    THEN [s EXCEPT !.pos_data = Update(@, data[name].pos_data),
                   !.target_data = Update(@, data[name].target_data)]
    ELSE s

\* _init_strategy: strategy.inited = True
FinishInit(s) == [s EXCEPT !.inited = TRUE]

\* _init_strategy after on_init returned: restore, subscribe, inited = True
WorkerFinish ==
    /\ worker.pc = "finish"
    /\ strategies' = IF worker.orphan THEN strategies
                     ELSE [strategies EXCEPT ![worker.name] =
                              FinishInit(RestoreState(@, strategy_data, worker.name))]
    /\ failed' = IF worker.orphan THEN failed
                 ELSE [failed EXCEPT ![worker.name] = ~strategies'[worker.name].inited]
    /\ worker' = Idle
    /\ last' = [ Last("init_done", worker.name, PutStrategyEvent(World, worker.name),
                      ~worker.orphan, NoSlices)
                 EXCEPT !.raised = IF worker.raised THEN {worker.name} ELSE {} ]
    /\ UNCHANGED << symbol_strategy_map, orderid_strategy_map, vt_tradeids, strategy_data,
                    init_queue, order_count, oms_orders, setting_file, data_file,
                    trade_calls >>

\* ---------------------------------------------------------------- lifecycle
SetStrategy(w, name, s) == [w EXCEPT !.strategies = [@ EXCEPT ![name] = s]]

\* start_strategy after on_start returned: strategy.trading = True
StartTrading(s) == [s EXCEPT !.trading = TRUE]

\* a start without its inited guard
StartGuardMissing(s) == ~s.trading

\* a start that looks at inited only
StartGuardInitedOnly(s) == s.inited

\* start_strategy: the guards before on_start
StartGuard(s) == s.inited /\ ~s.trading

\* StrategyEngine.start_strategy
StartStrategy(name, script) ==
    /\ name \in Registered
    /\ IF ~StartGuard(strategies[name])
       THEN /\ script = PassScript
            /\ UNCHANGED << strategies, orderid_strategy_map, order_count, failed >>
            /\ last' = Last("start_strategy", name, World, FALSE, NoSlices)
       ELSE LET w1 == Invoke(World, name, "on_start", script)
                w2 == SetStrategy(w1, name, StartTrading(w1.strategies[name]))
                w3 == PutStrategyEvent(w2, name)
            IN  /\ Commit(w3)
                /\ failed' = Failed(w3)
                /\ last' = Last("start_strategy", name, w3, TRUE, [NoSlices EXCEPT ![name] = Slices([n \in Names |-> script])[name]])
    /\ UNCHANGED << symbol_strategy_map, vt_tradeids, strategy_data, init_queue, worker,
                    oms_orders, setting_file, data_file, trade_calls >>

\* StrategyEngine.cancel_all(strategy), from the handler's engine state
CancelAllOf(w, name) ==
    LET own == SelectSeq(w.sent, LAMBDA e : e.name = name)
        c0  == [ Ctx(w.strategies[name], w.omap, w.count) EXCEPT
                   !.sent = [i \in 1..Len(own) |-> own[i].entry] ]
        c   == EngineCancelAll(c0, oms_orders)
    IN  [w EXCEPT !.cancels = @ \o Tag(name, c.cancels)]

\* StrategyEngine.stop_strategy
StopStrategy(name, script) ==
    /\ name \in Registered
    /\ IF ~strategies[name].trading
       THEN /\ script = PassScript
            /\ UNCHANGED << strategies, orderid_strategy_map, order_count, failed,
                            strategy_data, data_file >>
            /\ last' = Last("stop_strategy", name, World, FALSE, NoSlices)
       ELSE LET w1 == Invoke(World, name, "on_stop", script)
                w2 == SetStrategy(w1, name, [w1.strategies[name] EXCEPT !.trading = FALSE])
                w3 == CancelAllOf(w2, name)
                w4 == PutStrategyEvent(Saved(w3, {"data"}), name)
            IN  /\ Commit(w4)
                /\ strategy_data' = Put(strategy_data, name, LiveSnapshot)
                /\ data_file' = Serialize(strategy_data', strategies')
                /\ failed' = Failed(w4)
                /\ last' = Last("stop_strategy", name, w4, TRUE, [NoSlices EXCEPT ![name] = Slices([n \in Names |-> script])[name]])
    /\ UNCHANGED << symbol_strategy_map, vt_tradeids, init_queue, worker,
                    oms_orders, setting_file, trade_calls >>

\* ---------------------------------------------------------------- event dispatch
\* a tick handler that hands the tick to every listed strategy
TickGuardMissing(s) == TRUE

\* process_tick_event: the guard in the loop
TickGuard(s) == s.inited

\* process_tick_event: the loop over the strategies of the instrument
RECURSIVE DispatchTick(_, _, _)
DispatchTick(w, list, scripts) ==
    IF list = <<>> \/ w.escaped THEN w
    ELSE LET name == Head(list)
         IN  DispatchTick(IF TickGuard(w.strategies[name])
                          THEN Invoke(w, name, "on_tick", scripts[name])
                          ELSE w,
                          Tail(list), scripts)

\* the scripts an on_tick of `name` can run on this tick: it is only called
\* when listed and inited
ScriptsFor(name, symbol, choice) ==
    IF name \in Range(symbol_strategy_map[symbol]) /\ name \in Registered
    THEN choice ELSE {PassScript}

TickWith(symbol, scripts) ==
    /\ LET w == DispatchTick(World, symbol_strategy_map[symbol], scripts)
       IN  /\ Commit(w)
           /\ failed' = Failed(w)
           /\ last' = WithArg(Last("tick", symbol, w, TRUE, Slices(scripts)),
                               [n \in Names |->
                                  IF \E i \in 1..Len(w.calls) : w.calls[i].name = n
                                  THEN scripts[n] ELSE PassScript])
    /\ UNCHANGED << symbol_strategy_map, vt_tradeids, strategy_data, init_queue, worker,
                    oms_orders, setting_file, data_file, trade_calls >>

\* StrategyEngine.process_tick_event
ProcessTickEvent(symbol) ==
    \E sa \in ScriptsFor("A", symbol, ScriptsOf("A")),
       sb \in ScriptsFor("B", symbol, ScriptsOf("B")) :
        TickWith(symbol, [n \in Names |-> IF n = "A" THEN sa ELSE sb])

\* a lookup that gives the owner of any id on record
OwnerOfAnyId(omap, vt_orderid) ==
    IF \E o \in DOMAIN omap : omap[o] \in Names
    THEN omap[CHOOSE o \in DOMAIN omap : omap[o] \in Names]
    ELSE NoStrategy

\* orderid_strategy_map.get(vt_orderid, None)
Owner(omap, vt_orderid) ==
    IF vt_orderid \in DOMAIN omap THEN omap[vt_orderid] ELSE NoStrategy

\* the delivery of an order or trade event to the owner of its order id
Deliver(w, owner, func, arg) ==
    IF owner = NoStrategy THEN w
    ELSE IF owner = Orphan THEN InvokeOrphan(w, func)
    ELSE Invoke(w, owner, func, arg)

\* StrategyEngine.process_order_event
ProcessOrderEvent(vt_orderid, active) ==
    /\ vt_orderid \in 0..order_count
    /\ oms_orders' = oms_orders \cup ({vt_orderid} \cap OrderIds)
    /\ LET order == [ orderid |-> vt_orderid, active |-> active ]
           w == Deliver(World, Owner(orderid_strategy_map, vt_orderid), "update_order", order)
       IN  /\ Commit(w)
           /\ failed' = Failed(w)
           /\ last' = WithArg(EventLast("order", Owner(orderid_strategy_map, vt_orderid),
                                         vt_orderid, w, TRUE), order)
    /\ UNCHANGED << symbol_strategy_map, vt_tradeids, strategy_data, init_queue, worker,
                    setting_file, data_file, trade_calls >>

\* a trade handler without the filter
IsRepeatOff(seen, vt_tradeid) == FALSE

\* process_trade_event: the filter on trade ids already seen
IsRepeat(seen, vt_tradeid) == vt_tradeid \in seen

\* StrategyEngine.process_trade_event
ProcessTradeEvent(trade) ==
    /\ trade.orderid \in 0..order_count
    /\ IF IsRepeat(vt_tradeids, trade.tradeid)
       THEN /\ UNCHANGED << strategies, orderid_strategy_map, order_count, vt_tradeids,
                            failed, trade_calls >>
            /\ last' = WithArg(EventLast("trade", Owner(orderid_strategy_map, trade.orderid),
                                          trade.tradeid, World, FALSE), trade)
       ELSE LET w == Deliver(World, Owner(orderid_strategy_map, trade.orderid),
                             "update_trade", trade)
            IN  /\ vt_tradeids' = vt_tradeids \cup {trade.tradeid}
                /\ Commit(w)
                /\ failed' = Failed(w)
                /\ trade_calls' = [trade_calls EXCEPT ![trade.tradeid] = @ + Len(w.calls)]
                /\ last' = WithArg(EventLast("trade", Owner(orderid_strategy_map, trade.orderid),
                                              trade.tradeid, w, TRUE), trade)
    /\ UNCHANGED << symbol_strategy_map, strategy_data, init_queue, worker,
                    oms_orders, setting_file, data_file >>

\* the fills the gateway reports: a fill carries the instrument of its
\* order, and the orders of these runs are for s1 (RebalanceScripts)
Trades ==
    [ tradeid : TradeIds, orderid : 0..MaxOrders, symbol : {"s1"},
      direction : {"LONG", "SHORT"}, volume : TradeVolumes ]

\* ---------------------------------------------------------------- specification
\* the step budget of a run
Budget ==
    steps < budget /\ steps' = steps + 1 /\ UNCHANGED << focus, budget, pbg, replay >>

Next ==
    \/ \E c \in ClassNames, n \in Names : \E l \in SymbolLists(n) :
          Budget /\ AddStrategy(c, n, l)
    \/ \E n \in Names : Budget /\ RemoveStrategy(n)
    \/ \E n \in Names : Budget /\ InitStrategy(n)
    \/ Budget /\ WorkerBegin
    \/ \E s \in InitScripts : Budget /\ WorkerOnInit(s)
    \/ Budget /\ WorkerFinish
    \/ \E n \in Names, s \in {PassScript, RaiseScript} : Budget /\ StartStrategy(n, s)
    \/ \E n \in Names : \E s \in ScriptsOf(n) : Budget /\ StopStrategy(n, s)
    \/ \E k \in Symbols : Budget /\ ProcessTickEvent(k)
    \/ \E o \in 0..MaxOrders, a \in BOOLEAN : Budget /\ ProcessOrderEvent(o, a)
    \/ \E t \in Trades : Budget /\ ProcessTradeEvent(t)

Spec == Init /\ [][Next]_vars

\* the specifications differ in the steps they record in last, and in the
\* length of their runs
Focused(f, n) == InitEngine /\ focus = f /\ budget = n

SpecFaults == Focused({"tick", "stop_strategy"}, MaxSteps) /\ [][Next]_vars

SpecEvents == Focused({"tick", "order", "trade"}, MaxEventSteps) /\ [][Next]_vars

SpecRouting ==
    Focused({"tick", "order", "trade", "inputs"}, MaxEventSteps) /\ [][Next]_vars

SpecAdd == Focused({"add_strategy", "inputs"}, MaxSteps) /\ [][Next]_vars

SpecInitOrder ==
    Focused({"init_strategy", "init_begin", "init_refused", "init_keyerror",
             "on_init", "init_done"}, MaxSteps) /\ [][Next]_vars

SpecOffPath ==
    Focused({"init_strategy", "tick", "order", "trade"}, MaxEventSteps) /\ [][Next]_vars

SpecTrades == Focused({"trade"}, MaxSteps) /\ [][Next]_vars

SpecInit == Focused({"init_done"}, MaxSteps) /\ [][Next]_vars

SpecStart == Focused({"start_strategy"}, MaxSteps) /\ [][Next]_vars

SpecRemove == Focused({"remove_strategy"}, MaxSteps) /\ [][Next]_vars

SpecPosition == Focused({"trade", "init_done"}, MaxSteps) /\ [][Next]_vars

SpecRepeat ==
    Focused({"init_begin", "init_refused", "init_keyerror", "start_strategy",
             "stop_strategy"}, MaxSteps) /\ [][Next]_vars

\* ---------------------------------------------------------------- rebalance alone
\* One rebalance of a trading strategy, over the positions, targets, bar
\* slices and gateway answers within the bounds.
RebPositions == -MaxRebPos..MaxRebPos
RebTargets == -MaxRebTarget..MaxRebTarget
BarSlices == { <<"s1">>, <<"s2">>, <<"s1", "s2">>, <<"s2", "s1">> }

WideScripts ==
    { Script("rebalance", "pass", k, t, b, g) :
        k \in Symbols, t \in RebTargets, b \in BarSlices, g \in Gw }

\* A holds a position (from earlier fills) and trades
Holding(s, pos) == [s EXCEPT !.inited = TRUE, !.trading = TRUE, !.pos_data = pos]

InitRebalance ==
    /\ \E pos \in [Symbols -> RebPositions] \cup {EmptyMap} :
          strategies = [n \in Names |->
                          IF n = "A"
                          THEN Holding(NewStrategy(CHOOSE l \in SymbolLists(n) : TRUE), pos)
                          ELSE NewStrategy(CHOOSE l \in SymbolLists(n) : TRUE)]
    /\ symbol_strategy_map =
          AppendEach(AppendEach([k \in Symbols |-> <<>>], strategies["A"].vt_symbols, "A"),
                     strategies["B"].vt_symbols, "B")
    /\ orderid_strategy_map = [o \in OrderIds |-> NoStrategy]
    /\ vt_tradeids = {}
    /\ strategy_data = NoMap
    /\ init_queue = <<>>
    /\ worker = Idle
    /\ order_count = 0
    /\ oms_orders = {}
    /\ setting_file = Roster(strategies)
    /\ data_file = Serialize(strategy_data, strategies)
    /\ failed = [n \in Names |-> FALSE]
    /\ trade_calls = [t \in TradeIds |-> 0]
    /\ last = Blank
    /\ focus = {"tick", "inputs"}
    /\ budget = MaxSteps
    /\ steps = 0
    /\ pbg = None
    /\ replay = None

\* a tick whose on_tick completes a bar slice and rebalances
NextRebalance ==
    \E s \in WideScripts :
        /\ steps = 0 /\ steps' = steps + 1 /\ UNCHANGED << focus, budget, pbg, replay >>
        /\ TickWith("s1", [n \in Names |-> IF n = "A" THEN s ELSE PassScript])

SpecRebalance == InitRebalance /\ [][NextRebalance]_vars

\* ---------------------------------------------------------------- bar generator
\* utility.py, PortfolioBarGenerator.  A datetime is hour, minute and the
\* part below the minute (second stands for second and microsecond).
Stamp(hour, minute, second) == [hour |-> hour, minute |-> minute, second |-> second]

\* datetime.replace(second=0, microsecond=0)
TruncMinute(dt) == [dt EXCEPT !.second = 0]

\* datetime.replace(minute=0, second=0, microsecond=0)
TruncHour(dt) == [dt EXCEPT !.minute = 0, !.second = 0]

\* position of a datetime on the time axis, in half minutes
Ticks30(dt) == (dt.hour * 60 + dt.minute) * 2 + (IF dt.second = 0 THEN 0 ELSE 1)

\* BarData as the generator fills it
BarData(symbol, dt, open, high, low, close, volume, turnover, oi) ==
    [ volume |-> volume, symbol |-> symbol, turnover |-> turnover, datetime |-> dt,
      open_price |-> open, high_price |-> high, low_price |-> low,
      close_price |-> close, open_interest |-> oi ]

\* PortfolioBarGenerator.__init__
NewGenerator(window, interval) ==
    [ bars |-> EmptyMap, window |-> window, interval |-> interval, interval_count |-> 0,
      last_ticks |-> EmptyMap, hour_bars |-> EmptyMap, window_bars |-> EmptyMap,
      last_dts |-> EmptyMap ]

\* update_tick, a tick of a new bar: the bar opens flat at the last price
OpenBar(tick) ==
    BarData(tick.symbol, tick.datetime, tick.last_price, tick.last_price,
            tick.last_price, tick.last_price, 0, 0, tick.open_interest)

\* an update that leaves the high where it was
AbsorbKeepHigh(bar, tick) ==
    [ bar EXCEPT !.low_price = Min(@, tick.last_price),
                 !.close_price = tick.last_price,
                 !.open_interest = tick.open_interest,
                 !.datetime = tick.datetime ]

\* update_tick, a tick into the bar the local variable holds
Absorb(bar, tick) ==
    [ bar EXCEPT !.high_price = Max(@, tick.last_price),
                 !.low_price = Min(@, tick.last_price),
                 !.close_price = tick.last_price,
                 !.open_interest = tick.open_interest,
                 !.datetime = tick.datetime ]

\* a difference of the cumulative counters taken as it comes
DeltaUnfloored(now, before) == now - before

\* update_tick: max(tick.volume - last_tick.volume, 0)
Delta(now, before) == Max(now - before, 0)

\* update_tick, the volume and turnover the tick adds
Accumulate(bar, tick, last_tick) ==
    IF last_tick = None THEN bar
    ELSE [ bar EXCEPT !.volume = @ + Delta(tick.volume, last_tick.volume),
                      !.turnover = @ + Delta(tick.turnover, last_tick.turnover) ]

\* PortfolioBarGenerator.update_tick.  g: the generator after the call;
\* on_bar: the bars handed to on_bar, as they were at the call; bar: the
\* object the local variable `bar` holds at the return (None: the tick was
\* dropped).  Line 46 clears self.bars[vt_symbol] and leaves the local `bar`
\* on the bar just handed out, so that tick is absorbed into that object.
UpdateTick(g, tick) ==
    IF tick.last_price = 0
    THEN [ g |-> g, bar |-> None, on_bar |-> <<>> ]
    ELSE LET vt_symbol == tick.symbol
             last_dt   == Lookup(g.last_dts, vt_symbol)
             bar       == Lookup(g.bars, vt_symbol)
             closing   == /\ last_dt # None
                          /\ last_dt.minute # tick.datetime.minute
                          /\ bar # None
             closed    == IF closing THEN [bar EXCEPT !.datetime = TruncMinute(@)] ELSE bar
             filled    == IF closed = None THEN OpenBar(tick) ELSE Absorb(closed, tick)
             final     == Accumulate(filled, tick, Lookup(g.last_ticks, vt_symbol))
         IN  [ g |-> [ g EXCEPT !.bars = Put(@, vt_symbol, IF closing THEN None ELSE final),
                                !.last_ticks = Put(@, vt_symbol, tick),
                                !.last_dts = Put(@, vt_symbol, tick.datetime) ],
               bar |-> final, on_bar |-> IF closing THEN << closed >> ELSE <<>> ]

\* ---------------------------------------------------------------- tick feed
\* Ticks of two instruments over two hours; each instrument's ticks come in
\* the order of their timestamps.  A last price of 0 is "no valid price".
TickStamps ==
    { Stamp(h, 0, s) : h \in 0..1, s \in {0, 30} } \cup { Stamp(h, 1, 0) : h \in 0..1 }

Quote(last_price, volume, turnover, oi) == << last_price, volume, turnover, oi >>

\* price, cumulative volume, cumulative turnover, open interest
Quotes ==
    { Quote(0, 3, 30, 5), Quote(1, 0, 0, 5), Quote(2, 1, 10, 6), Quote(3, 2, 30, 6),
      Quote(1, 1, 40, 7) }

TickData(symbol, dt, q) ==
    [ volume |-> q[2], symbol |-> symbol, turnover |-> q[3], datetime |-> dt,
      open_interest |-> q[4], last_price |-> q[1] ]

\* the engine part of the state, absent from the generator's runs
NoEngine ==
    /\ strategies = NoMap
    /\ symbol_strategy_map = [k \in Symbols |-> <<>>]
    /\ orderid_strategy_map = [o \in OrderIds |-> NoStrategy]
    /\ vt_tradeids = {}
    /\ strategy_data = NoMap
    /\ init_queue = <<>>
    /\ worker = Idle
    /\ order_count = 0
    /\ oms_orders = {}
    /\ setting_file = NoMap
    /\ data_file = {}
    /\ failed = [n \in Names |-> FALSE]
    /\ trade_calls = [t \in TradeIds |-> 0]
    /\ focus = {}

held == << engine, failed, trade_calls, focus, budget >>

InitTicks ==
    /\ NoEngine
    /\ pbg = NewGenerator(0, "MINUTE")
    /\ replay = None
    /\ last = [ op |-> "none" ]
    /\ budget = MaxTicks
    /\ steps = 0

\* the strategy's on_tick hands a tick to the generator
FeedTick(tick) ==
    /\ steps < budget
    /\ steps' = steps + 1
    /\ LET last_dt == Lookup(pbg.last_dts, tick.symbol)
       IN  last_dt # None => Ticks30(last_dt) <= Ticks30(tick.datetime)
    /\ LET r == UpdateTick(pbg, tick)
       IN  /\ pbg' = r.g
           /\ last' = [ arg |-> tick, op |-> "update_tick", bar |-> r.bar,
                        on_bar |-> r.on_bar,
                        prev |-> Lookup(pbg.last_ticks, tick.symbol) ]
    /\ UNCHANGED << held, replay >>

NextTicks ==
    \E k \in Symbols, dt \in TickStamps, q \in Quotes : FeedTick(TickData(k, dt, q))

SpecTicks == InitTicks /\ [][NextTicks]_vars

\* ---------------------------------------------------------------- window bars
\* a window test on the minute itself
WindowClosesOnMultiple(minute, window) == minute % window = 0

\* update_bar_minute_window: not (bar.datetime.minute + 1) % self.window
WindowCloses(minute, window) == (minute + 1) % window = 0

\* update_bar_minute_window: the first bar of a window; BarData leaves close,
\* volume, turnover and open interest at 0
OpenWindow(bar, dt) ==
    BarData(bar.symbol, dt, bar.open_price, bar.high_price, bar.low_price, 0, 0, 0, 0)

\* update_bar_minute_window: a further bar of the window
WidenWindow(window_bar, bar) ==
    [ window_bar EXCEPT !.high_price = Max(@, bar.high_price),
                        !.low_price = Min(@, bar.low_price) ]

\* update_bar_minute_window: close, volume, turnover, open interest
CloseWindow(window_bar, bar) ==
    [ window_bar EXCEPT !.close_price = bar.close_price,
                        !.volume = @ + bar.volume,
                        !.turnover = @ + bar.turnover,
                        !.open_interest = bar.open_interest ]

\* PortfolioBarGenerator.update_bar_minute_window
UpdateBarMinuteWindow(g, bar) ==
    LET vt_symbol  == bar.symbol
        window_bar == Lookup(g.window_bars, vt_symbol)
        merged     == IF window_bar = None
                      THEN OpenWindow(bar, TruncMinute(bar.datetime))
                      ELSE WidenWindow(window_bar, bar)
        final      == CloseWindow(merged, bar)
        closes     == WindowCloses(bar.datetime.minute, g.window)
    IN  [ g |-> [ g EXCEPT !.window_bars = Put(@, vt_symbol, IF closes THEN None ELSE final) ],
          on_window_bar |-> IF closes THEN << final >> ELSE <<>> ]

\* ---------------------------------------------------------------- bar feed
\* One-minute bars of two instruments, each instrument's in the order of
\* their minutes, into a generator of window 1, 2 or 5.
WindowSizes == {1, 2, 5}

BarMinutes == 0..5

\* open, high, low, close, volume, turnover, open interest
BarShape(open, high, low, close, volume, turnover, oi) ==
    << open, high, low, close, volume, turnover, oi >>

BarShapes == { BarShape(2, 3, 1, 2, 1, 10, 5), BarShape(4, 5, 4, 5, 2, 30, 6) }

MinuteBar(symbol, dt, b) ==
    BarData(symbol, dt, b[1], b[2], b[3], b[4], b[5], b[6], b[7])

InitWindow ==
    /\ NoEngine
    /\ \E n \in WindowSizes : pbg = NewGenerator(n, "MINUTE")
    /\ replay = None
    /\ last = [ op |-> "none", open |-> [k \in Symbols |-> FALSE],
                on_window_bar |-> <<>>, runs |-> [k \in Symbols |-> <<>>] ]
    /\ budget = MaxBars
    /\ steps = 0

\* the one-minute bars an instrument has fed since its last window bar
RunOf(l, k, bar) == Append(IF l.open[k] THEN l.runs[k] ELSE <<>>, bar)

\* the strategy hands a one-minute bar to update_bar, in minute mode
FeedMinuteBar(bar) ==
    /\ steps < budget
    /\ steps' = steps + 1
    /\ pbg.interval = "MINUTE"
    /\ LET k == bar.symbol
       IN  /\ last.runs[k] # <<>> =>
                 Ticks30(last.runs[k][Len(last.runs[k])].datetime) < Ticks30(bar.datetime)
           /\ LET r == UpdateBarMinuteWindow(pbg, bar)
              IN  /\ pbg' = r.g
                  /\ last' = [ arg |-> bar, op |-> "update_bar",
                               open |-> [last.open EXCEPT ![k] = r.on_window_bar = <<>>],
                               on_window_bar |-> r.on_window_bar,
                               runs |-> [last.runs EXCEPT ![k] = RunOf(last, k, bar)] ]
    /\ UNCHANGED << held, replay >>

NextWindow ==
    \E k \in Symbols, m \in BarMinutes, b \in BarShapes :
        FeedMinuteBar(MinuteBar(k, Stamp(0, m, 0), b))

SpecWindow == InitWindow /\ [][NextWindow]_vars

\* ---------------------------------------------------------------- hour bars
\* update_bar_hour_window: the first bar of an hour
OpenHour(bar) ==
    BarData(bar.symbol, TruncHour(bar.datetime), bar.open_price, bar.high_price,
            bar.low_price, bar.close_price, bar.volume, bar.turnover, bar.open_interest)

\* update_bar_hour_window: a further bar of the hour
WidenHour(hour_bar, bar) ==
    [ hour_bar EXCEPT !.high_price = Max(@, bar.high_price),
                      !.low_price = Min(@, bar.low_price),
                      !.close_price = bar.close_price,
                      !.volume = @ + bar.volume,
                      !.turnover = @ + bar.turnover,
                      !.open_interest = bar.open_interest ]

\* PortfolioBarGenerator.update_bar_hour_window.  A finished hour bar goes to
\* self.on_hour_bar (line 210); the class defines on_hour_bars and no
\* on_hour_bar, so the attribute lookup raises AttributeError, after the
\* writes to self.hour_bars, and on_window_bar is not reached.
UpdateBarHourWindow(g, bar) ==
    LET vt_symbol == bar.symbol
        hour_bar  == Lookup(g.hour_bars, vt_symbol)
    IN  IF hour_bar = None
        THEN [ g |-> [g EXCEPT !.hour_bars = Put(@, vt_symbol, OpenHour(bar))],
               raised |-> FALSE, on_window_bar |-> <<>> ]
        ELSE IF bar.datetime.minute = 59
        THEN [ g |-> [g EXCEPT !.hour_bars = Put(@, vt_symbol, None)], raised |-> TRUE,
               on_window_bar |-> <<>> ]
        ELSE IF bar.datetime.hour # hour_bar.datetime.hour
        THEN [ g |-> [g EXCEPT !.hour_bars = Put(@, vt_symbol, OpenHour(bar))],
               raised |-> TRUE, on_window_bar |-> <<>> ]
        ELSE [ g |-> [g EXCEPT !.hour_bars = Put(@, vt_symbol, WidenHour(hour_bar, bar))],
               raised |-> FALSE, on_window_bar |-> <<>> ]

\* one-minute bars at the start and the end of two hours
HourStamps == { Stamp(h, m, 0) : h \in 0..1, m \in {0, 58, 59} }

HourWindows == {1, 2}

InitHour ==
    /\ NoEngine
    /\ \E n \in HourWindows : pbg = NewGenerator(n, "HOUR")
    /\ replay = None
    /\ last = [ op |-> "none" ]
    /\ budget = MaxBars
    /\ steps = 0

\* the strategy hands a one-minute bar to update_bar, in hour mode
FeedHourBar(bar) ==
    /\ steps < budget
    /\ steps' = steps + 1
    /\ pbg.interval # "MINUTE"
    /\ LET k == bar.symbol
       IN  /\ last.op = "update_bar" /\ k \in DOMAIN last.fed =>
                 Ticks30(last.fed[k]) < Ticks30(bar.datetime)
           /\ LET r == UpdateBarHourWindow(pbg, bar)
              IN  /\ pbg' = r.g
                  /\ last' = [ raised |-> r.raised, arg |-> bar, op |-> "update_bar",
                               on_window_bar |-> r.on_window_bar,
                               fed |-> Put(IF last.op = "update_bar" THEN last.fed ELSE EmptyMap,
                                           k, bar.datetime),
                               running |-> Lookup(pbg.hour_bars, k) ]
    /\ UNCHANGED << held, replay >>

NextHour ==
    \E k \in Symbols, dt \in HourStamps, b \in BarShapes : FeedHourBar(MinuteBar(k, dt, b))

SpecHour == InitHour /\ [][NextHour]_vars

\* ---------------------------------------------------------------- load_bars replay
\* engine.py, StrategyEngine.load_bars: the boundaries are the timestamps of
\* the bars load_bar returned, sorted; `bars` is one dict, updated at every
\* boundary and handed to on_bars.
Boundaries == 1..MaxBoundaries

\* a filled bar that keeps the old bar's prices and timestamp
ForwardFillCopy(old_bar, dt) == [old_bar EXCEPT !.volume = 0, !.turnover = 0]

\* load_bars: the bar made for an instrument without data at dt; BarData
\* leaves volume, turnover and open interest at 0
ForwardFill(old_bar, dt) ==
    BarData(old_bar.symbol, dt, old_bar.close_price, old_bar.close_price,
            old_bar.close_price, old_bar.close_price, 0, 0, 0)

\* load_bars, the inner loop: one boundary over the strategy's instruments
RECURSIVE FillSlice(_, _, _, _)
FillSlice(bars, history_data, dt, vt_symbols) ==
    IF vt_symbols = <<>> THEN bars
    ELSE LET vt_symbol == Head(vt_symbols)
             bar == Lookup(history_data, << dt, vt_symbol >>)
             next == IF bar # None THEN Put(bars, vt_symbol, bar)
                     ELSE IF vt_symbol \in DOMAIN bars
                     THEN Put(bars, vt_symbol, ForwardFill(bars[vt_symbol], dt))
                     ELSE bars
         IN  FillSlice(next, history_data, dt, Tail(vt_symbols))

\* load_bar returned no bar of that instrument and timestamp
NoBar == << >>

\* the histories load_bar may return for the instruments: any bars at any of
\* the boundaries
Histories == [ (Boundaries \X Symbols) -> BarShapes \cup {NoBar} ]

\* load_bars up to the outer loop: history_data and the sorted boundaries
StartReplay(vt_symbols, h) ==
    LET keys == { key \in DOMAIN h : h[key] # NoBar /\ key[2] \in Range(vt_symbols) }
    IN  [ vt_symbols |-> vt_symbols, bars |-> EmptyMap,
          history_data |-> [ key \in keys |-> MinuteBar(key[2], key[1], h[key]) ],
          dts |-> SetToSeq({ key[1] : key \in keys }) ]

InitReplay ==
    /\ NoEngine
    /\ pbg = None
    /\ \E h \in Histories : replay = StartReplay(<< "s1", "s2" >>, h)
    /\ last = [ op |-> "none" ]
    /\ budget = MaxBoundaries
    /\ steps = 0

\* load_bars, one pass of the outer loop, up to the call of on_bars
ReplayBoundary ==
    /\ steps < budget
    /\ steps' = steps + 1
    /\ replay.dts # <<>>
    /\ LET dt == Head(replay.dts)
           bars == FillSlice(replay.bars, replay.history_data, dt, replay.vt_symbols)
       IN  /\ replay' = [replay EXCEPT !.dts = Tail(@), !.bars = bars]
           /\ last' = [ bars |-> bars, op |-> "on_bars", dt |-> dt ]
    /\ UNCHANGED << held, pbg >>

NextReplay == ReplayBoundary

SpecReplay == InitReplay /\ [][NextReplay]_vars

\* ---------------------------------------------------------------- fills alone
\* One fill reaching a trading strategy: A holds positions and targets within
\* the bounds and has order 1 working; the fill is of either instrument.
Working(s) ==
    [s EXCEPT !.orders = Put(@, 1, TRUE), !.active_orderids = {1}]

InitFills ==
    /\ \E pos \in [Symbols -> RebPositions] \cup {EmptyMap},
          target \in {EmptyMap, [k \in Symbols |-> 1]} :
          strategies = [n \in Names |->
                          IF n = "A"
                          THEN [ Working(Holding(NewStrategy(CHOOSE l \in SymbolLists(n) : TRUE),
                                                 pos))
                                 EXCEPT !.target_data = target ]
                          ELSE NewStrategy(CHOOSE l \in SymbolLists(n) : TRUE)]
    /\ symbol_strategy_map =
          AppendEach(AppendEach([k \in Symbols |-> <<>>], strategies["A"].vt_symbols, "A"),
                     strategies["B"].vt_symbols, "B")
    /\ orderid_strategy_map = [o \in OrderIds |-> IF o = 1 THEN "A" ELSE NoStrategy]
    /\ vt_tradeids = {}
    /\ strategy_data = NoMap
    /\ init_queue = <<>>
    /\ worker = Idle
    /\ order_count = 1
    /\ oms_orders = {1}
    /\ setting_file = Roster(strategies)
    /\ data_file = Serialize(strategy_data, strategies)
    /\ failed = [n \in Names |-> FALSE]
    /\ trade_calls = [t \in TradeIds |-> 0]
    /\ last = Blank
    /\ focus = {"trade", "inputs"}
    /\ budget = MaxSteps
    /\ steps = 0
    /\ pbg = None
    /\ replay = None

FillTrades ==
    [ tradeid : TradeIds, orderid : 0..1, symbol : Symbols,
      direction : {"LONG", "SHORT"}, volume : TradeVolumes ]

NextFills == \E t \in FillTrades : Budget /\ ProcessTradeEvent(t)

SpecFills == InitFills /\ [][NextFills]_vars

\* ---------------------------------------------------------------- load_bar sources
\* engine.py, StrategyEngine.load_bar.  contract: what main_engine.get_contract
\* gives ("none": no contract, "plain": a contract without history_data,
\* "history": one with it); the other arguments are what each source returns
\* when it is asked.  queried: the sources asked, in order.
LoadBar(contract, query_history, query_bar_history, load_bar_data) ==
    LET first == IF contract = "history"
                 THEN [ data |-> query_history, queried |-> << "gateway" >> ]
                 ELSE [ data |-> query_bar_history, queried |-> << "datafeed" >> ]
    IN  IF first.data = <<>>
        THEN [ data |-> load_bar_data, queried |-> Append(first.queried, "database") ]
        ELSE first

Contracts == {"none", "plain", "history"}

\* the bars (by timestamp) each source may hold for the instrument
GatewayBars == { <<>>, << 1 >>, << 1, 2 >> }
DatafeedBars == { <<>>, << 2 >>, << 2, 3 >> }
DatabaseBars == { <<>>, << 3 >>, << 1, 3 >> }

\* the collaborators of one load_bar call: contract, gateway, datafeed, database
InitSources ==
    /\ NoEngine
    /\ pbg = None
    /\ replay \in Contracts \X GatewayBars \X DatafeedBars \X DatabaseBars
    /\ last = [ op |-> "none" ]
    /\ budget = 1
    /\ steps = 0

\* load_bars asks load_bar for the bars of one instrument
LoadBarCall(vt_symbol) ==
    /\ steps < budget
    /\ steps' = steps + 1
    /\ LET r == LoadBar(replay[1], replay[2], replay[3], replay[4])
       IN  last' = [ op |-> "load_bar", data |-> r.data, vt_symbol |-> vt_symbol,
                     queried |-> r.queried ]
    /\ UNCHANGED << held, pbg, replay >>

NextSources == \E k \in Symbols : LoadBarCall(k)

SpecSources == InitSources /\ [][NextSources]_vars

\* ---------------------------------------------------------------- load_bars in order
\* engine.py, StrategyEngine.load_bars from the load: each instrument's bars
\* come back from load_bar as a list in any order; the replay then calls
\* on_bars through call_strategy_func at every boundary.
\* a boundary list in the opposite order
DtsDescending(dts_set) ==
    LET asc == SetToSeq(dts_set)
    IN  [ i \in 1..Len(asc) |-> asc[Len(asc) + 1 - i] ]

\* load_bars: dts = list(dts_set); dts.sort()
SortDts(dts_set) == SetToSeq(dts_set)

\* the lists load_bar may return for an instrument: bars of distinct
\* timestamps, in any order
RECURSIVE Orderings(_)
Orderings(S) ==
    {<<>>} \cup UNION { { << x >> \o rest : rest \in Orderings(S \ {x}) } : x \in S }

Returned == Orderings(Boundaries)

\* load_bars, the load loop: history_data keyed by (datetime, vt_symbol)
LoadHistory(vt_symbols, returned) ==
    LET keys == { key \in Boundaries \X Range(vt_symbols) : key[1] \in Range(returned[key[2]]) }
    IN  [ key \in keys |-> MinuteBar(key[2], key[1], BarShape(2, 3, 1, 2, 1, 10, 5)) ]

\* load_bars up to the outer loop, from the lists load_bar returned
StartLoad(vt_symbols, returned) ==
    LET history_data == LoadHistory(vt_symbols, returned)
    IN  [ vt_symbols |-> vt_symbols, bars |-> EmptyMap, history_data |-> history_data,
          dts |-> SortDts({ key[1] : key \in DOMAIN history_data }) ]

InitOrdered ==
    /\ NoEngine
    /\ pbg = None
    /\ \E vt_symbols \in { << "s1", "s2" >>, << "s2", "s1" >> },
          returned \in [Symbols -> Returned] :
          /\ replay = StartLoad(vt_symbols, returned)
          /\ last = [ s |-> NewStrategy(vt_symbols), raised |-> FALSE,
                      escaped |-> FALSE, op |-> "none", returned |-> returned,
                      called |-> <<>> ]
    /\ budget = MaxBoundaries
    /\ steps = 0

\* load_bars, one pass of the outer loop: the slice, then
\* call_strategy_func(strategy, strategy.on_bars, bars); raises: what on_bars does
ReplayOnBars(raises) ==
    /\ steps < budget
    /\ steps' = steps + 1
    /\ replay.dts # <<>>
    /\ LET dt == Head(replay.dts)
           bars == FillSlice(replay.bars, replay.history_data, dt, replay.vt_symbols)
           r == CallStrategyFunc([ c |-> Ctx(last.s, orderid_strategy_map, order_count),
                                   raised |-> raises ])
       IN  /\ replay' = [replay EXCEPT !.dts = Tail(@), !.bars = bars]
           /\ last' = [ s |-> r.c.s, raised |-> r.raised, escaped |-> r.escaped,
                        op |-> "on_bars", returned |-> last.returned,
                        called |-> Append(last.called, dt) ]
    /\ UNCHANGED << held, pbg >>

NextOrdered == \E raises \in BOOLEAN : ReplayOnBars(raises)

\* the loop of load_bars runs on one thread until dts is exhausted
SpecOrdered == InitOrdered /\ [][NextOrdered]_vars /\ WF_vars(NextOrdered)

\* ---------------------------------------------------------------- restore alone
\* engine.py, _init_strategy, the restore of the persisted variables, on a
\* strategy with one variable of its own besides the four the template lists.
\* The strategy's attributes and the snapshot are maps from variable names.
Variables == << "inited", "trading", "pos_data", "target_data", "fast_window" >>

\* a restore that assigns every persisted variable
RestoreOneAssign(s, name, value) == [s EXCEPT ![name] = value]

\* _init_strategy, the body of the loop for a variable the snapshot holds:
\* dict.update for the two position maps, setattr for the others
RestoreOne(s, name, value) ==
    IF name \in {"pos_data", "target_data"}
    THEN [s EXCEPT ![name] = Update(@, value)]
    ELSE [s EXCEPT ![name] = value]

\* _init_strategy, the loop over strategy.variables: data.get(name, None) is
\* None for a variable the snapshot does not hold
RECURSIVE RestoreEach(_, _, _)
RestoreEach(s, data, names) ==
    IF names = <<>> THEN s
    ELSE LET name == Head(names)
             next == IF name \notin DOMAIN data THEN s
                     ELSE RestoreOne(s, name, data[name])
         IN  RestoreEach(next, data, Tail(names))

\* strategy_data.get(strategy_name, None) gave None, or an empty snapshot
NoSnapshot == EmptyMap

\* _init_strategy, lines 383-397: nothing without a snapshot
RestoreVariables(s, data) ==
    IF data = NoSnapshot THEN s ELSE RestoreEach(s, data, Variables)

\* the position maps a strategy or a snapshot may hold
HeldMaps ==
    { EmptyMap, [k \in {"s1"} |-> 2], [k \in Symbols |-> IF k = "s1" THEN 2 ELSE -1] }
StoredMaps == { EmptyMap, [k \in {"s1"} |-> 5], [k \in {"s2"} |-> 3] }
WindowValues == {0, 7}

\* the strategy as on_init left it
AfterOnInit(pos, target, fast_window) ==
    [ name \in Range(Variables) |->
        IF name = "pos_data" THEN pos
        ELSE IF name = "target_data" THEN target
        ELSE IF name = "fast_window" THEN fast_window
        ELSE FALSE ]

\* sync_strategy_data: the snapshot holds the variables without inited and
\* trading; one written before the strategy had fast_window lacks it
Snapshots ==
    { [ name \in {"pos_data", "target_data", "fast_window"} |->
          IF name = "pos_data" THEN pos
          ELSE IF name = "target_data" THEN target ELSE fast_window ] :
        pos \in StoredMaps, target \in StoredMaps, fast_window \in WindowValues }
    \cup { [ name \in {"pos_data", "target_data"} |->
               IF name = "pos_data" THEN pos ELSE target ] :
             pos \in StoredMaps, target \in StoredMaps }

InitRestore ==
    /\ NoEngine
    /\ pbg = None
    /\ replay = None
    /\ \E pos \in HeldMaps, target \in HeldMaps, fast_window \in WindowValues,
          data \in Snapshots \cup {NoSnapshot} :
          last = [ s |-> AfterOnInit(pos, target, fast_window), op |-> "none",
                   data |-> data, restored |-> AfterOnInit(pos, target, fast_window) ]
    /\ budget = 1
    /\ steps = 0

\* the worker reaches the restore
Restore ==
    /\ steps < budget
    /\ steps' = steps + 1
    /\ last' = [ last EXCEPT !.op = "restore", !.restored = RestoreVariables(last.s, last.data) ]
    /\ UNCHANGED << held, pbg, replay >>

NextRestore == Restore

SpecRestore == InitRestore /\ [][NextRestore]_vars

\* ---------------------------------------------------------------- two generators
\* The same updates of s1 go to two generators; one of them also gets the
\* updates of s2, interleaved.  In tick mode the strategy calls update_tick,
\* in bar mode update_bar.
\* PortfolioBarGenerator.update_bar: the dispatch on self.interval.  closed:
\* the hour bars handed to self.on_hour_bar
UpdateBar(g, bar) ==
    IF g.interval = "MINUTE"
    THEN LET r == UpdateBarMinuteWindow(g, bar)
         IN  [ g |-> r.g, closed |-> 0, emitted |-> r.on_window_bar ]
    ELSE LET r == UpdateBarHourWindow(g, bar)
         IN  [ g |-> r.g, closed |-> IF r.raised THEN 1 ELSE 0, emitted |-> r.on_window_bar ]

\* one call of the generator, by the kind of the update
Update1(g, mode, u) ==
    IF mode = "tick"
    THEN LET r == UpdateTick(g, u)
         IN  [ g |-> r.g, closed |-> 0, emitted |-> r.on_bar ]
    ELSE UpdateBar(g, u)

\* the generators a strategy may build: for ticks, for N-minute and for
\* N-hour windows
Modes == { << "tick", 0, "MINUTE" >>, << "bar", 2, "MINUTE" >>,
           << "bar", 1, "HOUR" >>, << "bar", 2, "HOUR" >> }

InitTwo ==
    /\ NoEngine
    /\ replay = None
    /\ \E m \in Modes :
          /\ pbg = [ mode |-> m[1], both |-> NewGenerator(m[2], m[3]),
                     alone |-> NewGenerator(m[2], m[3]) ]
          /\ budget = IF m[1] = "tick" THEN MaxTicks ELSE MaxBars
    /\ last = [ op |-> "none", closed |-> 0, fed |-> EmptyMap, emitted_both |-> <<>>,
                emitted_alone |-> <<>> ]
    /\ steps = 0

\* an update of instrument k reaches the generators: both of them for s1,
\* only the first for s2
FeedTwo(u) ==
    /\ steps < budget
    /\ steps' = steps + 1
    /\ LET k == u.symbol
       IN  /\ k \in DOMAIN last.fed => Ticks30(last.fed[k]) <= Ticks30(u.datetime)
           /\ pbg.mode = "bar" /\ k \in DOMAIN last.fed =>
                 Ticks30(last.fed[k]) < Ticks30(u.datetime)
           /\ LET b == Update1(pbg.both, pbg.mode, u)
                  a == Update1(pbg.alone, pbg.mode, u)
              IN  IF k = "s1"
                  THEN /\ pbg' = [ pbg EXCEPT !.both = b.g, !.alone = a.g ]
                       /\ last' = [ op |-> "update", closed |-> last.closed + b.closed,
                                    fed |-> Put(last.fed, k, u.datetime),
                                    emitted_both |-> last.emitted_both \o b.emitted,
                                    emitted_alone |-> last.emitted_alone \o a.emitted ]
                  ELSE /\ pbg' = [ pbg EXCEPT !.both = b.g ]
                       /\ last' = [ last EXCEPT !.op = "update",
                                                !.fed = Put(last.fed, k, u.datetime) ]
    /\ UNCHANGED << held, replay >>

FeedTwoTick ==
    /\ pbg.mode = "tick"
    /\ \E k \in Symbols, dt \in TickStamps, q \in Quotes : FeedTwo(TickData(k, dt, q))

FeedTwoBar ==
    /\ pbg.mode = "bar"
    /\ \E k \in Symbols, dt \in HourStamps \cup { Stamp(0, 1, 0) }, b \in BarShapes :
          FeedTwo(MinuteBar(k, dt, b))

NextTwo == FeedTwoTick \/ FeedTwoBar

SpecTwo == InitTwo /\ [][NextTwo]_vars

\* ---------------------------------------------------------------- routing table
\* add_strategy takes the instrument list as the caller wrote it: the
\* widget splits the text of the dialog at the commas, and neither it nor the
\* engine looks for an instrument written twice
TypedLists(name) == SymbolLists(name) \cup {<<"s2", "s2">>}

NextTable ==
    \/ \E c \in ClassNames, n \in Names : \E l \in TypedLists(n) :
          Budget /\ AddStrategy(c, n, l)
    \/ \E n \in Names : Budget /\ RemoveStrategy(n)
    \/ \E n \in Names : Budget /\ InitStrategy(n)
    \/ Budget /\ WorkerBegin
    \/ \E s \in InitScripts : Budget /\ WorkerOnInit(s)
    \/ Budget /\ WorkerFinish
    \/ \E k \in Symbols : Budget /\ ProcessTickEvent(k)

SpecTable ==
    Focused({"tick", "add_strategy", "remove_strategy"}, MaxSteps) /\ [][NextTable]_vars

\* ---------------------------------------------------------------- rebalance and fills
\* template.py and engine.py: a trading strategy rebalances up to MaxCycles
\* times, every order is accepted, and an order fills completely or not at
\* all, in any order.  The record in replay holds the strategy, the engine's
\* order table and trade ids, and the book of the gateway.
LotSizes == {1, 2}
FillTargets == {-2, 1, 3}
FillPositions == {-1, 0, 2}

\* round_to(value, target) of vnpy.trader.utility, as send_order applies it
\* to the volume: the nearest multiple of target, a half going to the even one
RoundTo(value, target) ==
    LET q == value \div target
        r == value % target
    IN  IF 2 * r < target THEN q * target
        ELSE IF 2 * r > target THEN (q + 1) * target
        ELSE IF q % 2 = 0 THEN q * target
        ELSE (q + 1) * target

\* StrategyTemplate.send_order and StrategyEngine.send_order for one leg, the
\* gateway accepting: the volume is rounded to the contract's min_volume, the
\* id goes to orderid_strategy_map and to active_orderids
SendLeg(r, req) ==
    IF r.s.trading
    THEN LET id == r.count + 1
         IN  [r EXCEPT !.count = id,
                       !.omap = Put(@, id, "A"),
                       !.book = Append(@, [ req    |-> [req EXCEPT !.volume =
                                                          RoundTo(req.volume, r.min_volume)],
                                            asked  |-> req.volume,
                                            cycle  |-> r.cycle ]),
                       !.s.active_orderids = @ \cup {id}]
    ELSE r

RECURSIVE SendLegs(_, _)
SendLegs(r, reqs) ==
    IF reqs = <<>> THEN r ELSE SendLegs(SendLeg(r, Head(reqs)), Tail(reqs))

\* rebalance_portfolio, the loop over the slice
RECURSIVE RebalanceSlice(_, _)
RebalanceSlice(r, bars) ==
    IF bars = <<>> THEN r
    ELSE LET k  == Head(bars)
             r1 == [r EXCEPT !.s = TouchPos(TouchTarget(@, k), k)]
         IN  RebalanceSlice(SendLegs(r1, RebalanceLegs(k, GetTarget(r1.s, k), GetPos(r1.s, k))),
                            Tail(bars))

InitConverge ==
    /\ NoEngine
    /\ pbg = None
    /\ last = Blank
    /\ \E pos \in FillPositions, target \in {0, 2}, min_volume \in LotSizes :
          replay = [ s           |-> [ Holding(NewStrategy(<<"s1", "s2">>),
                                              [k \in Symbols |-> IF k = "s1" THEN pos ELSE 0])
                                      EXCEPT !.target_data =
                                          [k \in Symbols |-> IF k = "s1" THEN 0 ELSE target] ],
                     omap        |-> EmptyMap,
                     count       |-> 0,
                     vt_tradeids |-> {},
                     before      |-> [k \in Symbols |-> IF k = "s1" THEN pos ELSE 0],
                     book        |-> <<>>,
                     min_volume  |-> min_volume,
                     cycle       |-> 0,
                     slice       |-> <<>>,
                     cancelled   |-> {},
                     stale       |-> FALSE ]
    /\ budget = MaxSteps
    /\ steps = 0

\* an on_bars that sets the target of s1 and rebalances over the slice:
\* cancel_all asks for the cancel of every active order and waits for nothing
RebalanceCycle(target, bars) ==
    /\ steps < budget
    /\ steps' = steps + 1
    /\ replay.cycle < MaxCycles
    /\ LET r0 == [replay EXCEPT !.s = SetTarget(@, "s1", target),
                                !.cycle = @ + 1,
                                !.before = [k \in Symbols |-> GetPos(replay.s, k)],
                                !.slice = bars,
                                !.cancelled = IF replay.s.trading
                                              THEN @ \cup replay.s.active_orderids ELSE @,
                                !.stale = FALSE]
       IN  replay' = RebalanceSlice(r0, bars)
    /\ UNCHANGED << held, pbg, last >>

\* process_trade_event for the complete fill of order o, one trade with an
\* id of its own; an order whose volume was rounded to nothing has no fill
FillOrder(o) ==
    /\ steps < budget
    /\ steps' = steps + 1
    /\ o \in 1..Len(replay.book)
    /\ replay.book[o].req.volume > 0
    /\ ~IsRepeat(replay.vt_tradeids, o)
    /\ Owner(replay.omap, o) = "A"
    /\ LET order == replay.book[o]
           trade == [ direction |-> order.req.direction, volume |-> order.req.volume,
                      symbol |-> order.req.symbol, orderid |-> o, tradeid |-> o ]
       IN  replay' = [replay EXCEPT !.vt_tradeids = @ \cup {o},
                                    !.s = UpdateTrade(@, trade),
                                    !.stale = @ \/ order.cycle < replay.cycle]
    /\ UNCHANGED << held, pbg, last >>

NextConverge ==
    \/ \E target \in FillTargets, bars \in {<<"s1">>, <<"s2", "s1">>} :
          RebalanceCycle(target, bars)
    \/ \E o \in 1..(2 * 2 * MaxCycles) : FillOrder(o)

SpecConverge == InitConverge /\ [][NextConverge]_vars

\* ---------------------------------------------------------------- properties
\* the operations that run a user callback on a strategy that trades or
\* listens: a tick (on_tick and what it reaches) and a stop (on_stop);
\* update_order and update_trade are template code and do not raise
FaultOps == {"tick", "stop_strategy"}

Called(l, name, func) ==
    \E i \in 1..Len(l.calls) : l.calls[i] = [name |-> name, func |-> func]

CalledAny(l, name) == \E i \in 1..Len(l.calls) : l.calls[i].name = name

\* C1: a callback invoked through call_strategy_func during event dispatch
\* (on_tick, on_stop) that raises leaves its strategy with inited = false and
\* trading = false, and nothing propagates to the dispatcher
C1_FaultBoundary ==
    last.op \in FaultOps =>
        /\ ~last.escaped
        /\ \A n \in last.raised :
              /\ n \in last.caught
              /\ ~strategies[n].inited
              /\ ~strategies[n].trading

C1_Witness ==
    /\ last.op = "tick"
    /\ "A" \in last.raised
    /\ Called(last, "A", "on_tick")
    /\ ~strategies["A"].inited /\ ~strategies["A"].trading

\* C2: a strategy whose on_init raised during init_strategy ends
\* uninitialized (inited = false, trading = false)
C2_InitFailureUninitialized ==
    (last.op = "init_done" /\ last.result) =>
        \A n \in last.raised : ~strategies[n].inited /\ ~strategies[n].trading

\* C3: a strategy whose on_start raised during start_strategy (called on an
\* inited, non-trading strategy) ends with trading = false and inited = false
C3_StartFailureStopped ==
    (last.op = "start_strategy" /\ last.result) =>
        \A n \in last.raised : ~strategies[n].trading /\ ~strategies[n].inited

\* C4 as stated: after a callback failure the strategy receives no further
\* event callback of any kind (on_tick, update_order, update_trade) until it
\* is initialized again
C4_NoCallbackAfterFailure ==
    [][ \A n \in Names :
          (failed[n] /\ last'.op \in {"tick", "order", "trade"}) => ~CalledAny(last', n) ]_vars

\* C4, amended: after a callback failure the strategy receives no on_tick
\* until it is initialized again, while an order event and a first-seen trade
\* event for an order id it owns are still delivered to it
C4_NoTickAfterFailure ==
    [][ \A n \in Names :
          /\ (failed[n] /\ last'.op = "tick") => ~CalledAny(last', n)
          /\ (failed[n] /\ last'.op = "order" /\ last'.name = n)
                => Called(last', n, "update_order")
          /\ (failed[n] /\ last'.op = "trade" /\ last'.name = n
                /\ last'.key \notin vt_tradeids)
                => Called(last', n, "update_trade") ]_vars

\* a tick on an instrument of a failed strategy passes it by
C4_Witness ==
    /\ last.op = "tick"
    /\ \E n \in Registered :
          /\ failed[n]
          /\ n \in Range(symbol_strategy_map[last.name])
          /\ ~CalledAny(last, n)

\* C5: a raise in strategy A's callback (on_tick, on_stop) leaves every
\* other strategy B as it was (flags, Position, Target, order maps), and a
\* tick is still handed to every listed strategy that is inited, whatever the
\* others did
C5_FaultIsolation ==
    [][ /\ \A a \in last'.raised : \A b \in Registered \ {a} :
              (last'.op \in FaultOps /\ b \notin last'.raised
                 /\ last'.slices[b] = <<>>)
                 => /\ b \in DOMAIN strategies'
                    /\ strategies'[b] = strategies[b]
                    /\ \A o \in OrderIds : orderid_strategy_map[o] = b
                                             => orderid_strategy_map'[o] = b
        /\ last'.op = "tick" =>
              \A b \in Range(symbol_strategy_map[last'.name]) :
                  (b \in Registered /\ strategies[b].inited)
                     => Called(last', b, "on_tick") ]_vars

\* A raised on the tick and B, after it in the list, still got the tick
C5_Witness ==
    /\ last.op = "tick"
    /\ last.raised = {"A"}
    /\ last.calls = << [name |-> "A", func |-> "on_tick"], [name |-> "B", func |-> "on_tick"] >>
    /\ strategies["B"].inited

\* C6: start_strategy on a strategy with inited = false is a no-op: on_start
\* is not invoked, trading stays as it was (false stays false), inited stays false
C6_StartUninitedNoOp ==
    [][ \A n \in Names :
          (last'.op = "start_strategy" /\ last'.name = n /\ n \in Registered
             /\ ~strategies[n].inited)
          => /\ last'.calls = <<>>
             /\ strategies' = strategies
             /\ ~strategies'[n].inited
             /\ (~strategies[n].trading => ~strategies'[n].trading) ]_vars

C6_Witness ==
    /\ last.op = "start_strategy"
    /\ ~last.result
    /\ last.name \in Registered
    /\ ~strategies[last.name].inited
    /\ ~strategies[last.name].trading

\* C7: remove_strategy on a trading strategy returns False and changes
\* nothing: registry, routing lists, order-id correlations and persisted data
C7_RemoveTradingRefused ==
    [][ \A n \in Names :
          (last'.op = "remove_strategy" /\ last'.name = n /\ n \in Registered
             /\ strategies[n].trading)
          => /\ ~last'.result
             /\ last'.saved = {}
             /\ UNCHANGED engine ]_vars

C7_Witness ==
    /\ last.op = "remove_strategy"
    /\ ~last.result
    /\ last.name \in Registered
    /\ strategies[last.name].trading
    /\ last.name \in Range(symbol_strategy_map["s1"])
    /\ \E o \in OrderIds : orderid_strategy_map[o] = last.name

\* C8: a trade event whose id was seen before is dropped: every trade id
\* reaches update_trade at most once, a repeated event changes no strategy,
\* and the first event for an owned order does change Position
C8_TradeOnce ==
    [][ /\ \A t \in TradeIds : trade_calls'[t] <= 1
        /\ (last'.op = "trade" /\ last'.key \in vt_tradeids)
              => /\ last'.calls = <<>>
                 /\ strategies' = strategies
                 /\ vt_tradeids' = vt_tradeids
        /\ (last'.op = "trade" /\ last'.key \notin vt_tradeids /\ last'.name \in Registered)
              => /\ Called(last', last'.name, "update_trade")
                 /\ strategies'[last'.name].pos_data # strategies[last'.name].pos_data ]_vars

\* the repeat of a trade that was delivered is dropped
C8_Witness ==
    /\ last.op = "trade"
    /\ ~last.result
    /\ last.calls = <<>>
    /\ trade_calls[last.key] = 1

PosChanged(n) ==
    /\ n \in Registered /\ n \in DOMAIN strategies'
    /\ strategies'[n].pos_data # strategies[n].pos_data

\* C9 as stated: Position is changed only by update_trade
C9_OnlyUpdateTrade ==
    [][ \A n \in Names : PosChanged(n) => (last'.op = "trade" /\ last'.name = n) ]_vars

\* C9, amended: Position is changed only by update_trade and by the state
\* restore of init_strategy, which merges a snapshot read from the data file
C9_OnlyTradeOrRestore ==
    [][ \A n \in Names :
          PosChanged(n) =>
             \/ (last'.op = "trade" /\ last'.name = n /\ Called(last', n, "update_trade"))
             \/ (last'.op = "init_done" /\ last'.name = n
                   /\ n \in DOMAIN strategy_data /\ strategy_data[n].kind = "file") ]_vars

\* the restore gave a strategy a position no trade gave it
C9_Witness ==
    /\ last.op = "init_done"
    /\ vt_tradeids = {}
    /\ strategies[last.name].pos_data # EmptyMap

\* the order requests strategy `name` made for instrument k in the last step
LegsOf(name, k) ==
    LET own == SelectSeq(last.sent, LAMBDA e : e.name = name /\ e.entry.req.symbol = k)
    IN  [i \in 1..Len(own) |-> own[i].entry.req]

Signed(req) == IF req.direction = "LONG" THEN req.volume ELSE -req.volume

RECURSIVE SignedSum(_)
SignedSum(reqs) == IF reqs = <<>> THEN 0 ELSE Signed(Head(reqs)) + SignedSum(Tail(reqs))

LegPlaces(k) == { i \in 1..Len(last.sent) : last.sent[i].entry.req.symbol = k }

\* C11: when Position and Target of an instrument have opposite signs, the
\* rebalance submits its closing order before its opening order, both in the
\* direction of diff (long when diff > 0, short when diff < 0)
C11_CloseBeforeOpen ==
    last.op = "tick" =>
        \A k \in Range(last.slices["A"]) :
            LET pos    == Get(strategies["A"].pos_data, k)
                target == Get(strategies["A"].target_data, k)
                dir    == IF target - pos > 0 THEN "LONG" ELSE "SHORT"
                closes == { i \in LegPlaces(k) : last.sent[i].entry.req.offset = "CLOSE" }
                opens  == { i \in LegPlaces(k) : last.sent[i].entry.req.offset = "OPEN" }
            IN  ((pos < 0 /\ target > 0) \/ (pos > 0 /\ target < 0)) =>
                    /\ closes # {} /\ opens # {}
                    /\ \A i \in closes, j \in opens : i < j
                    /\ \A i \in LegPlaces(k) : last.sent[i].entry.req.direction = dir

\* long 2 with target -1: sell 2, then short 1
C11_Witness ==
    /\ last.op = "tick"
    /\ Get(strategies["A"].pos_data, "s2") = 2
    /\ Get(strategies["A"].target_data, "s2") = -1
    /\ \E i \in LegPlaces("s2") :
          /\ last.sent[i].entry.req = Req("s2", "SHORT", "CLOSE", 2)
          /\ i + 1 \in LegPlaces("s2")
          /\ last.sent[i + 1].entry.req = Req("s2", "SHORT", "OPEN", 1)

\* C12: rebalance_portfolio(bars) submits no order for an instrument absent
\* from bars, and leaves Position and Target of every instrument as they
\* were (Target as set_target left it before the call)
C12_RebalanceFrame ==
    [][ last'.op = "tick" =>
          LET call == last'.arg["A"]
          IN  call.kind = "rebalance" =>
                /\ \A i \in 1..Len(last'.sent) :
                      last'.sent[i].entry.req.symbol \in Range(call.bars)
                /\ strategies'["A"].pos_data = strategies["A"].pos_data
                /\ \A j \in Symbols :
                      Get(strategies'["A"].target_data, j) =
                         IF j = call.symbol THEN call.target
                         ELSE Get(strategies["A"].target_data, j) ]_vars

\* s2 is long 2 with target -1 and has no bar: nothing is sent for it
C12_Witness ==
    /\ last.op = "tick"
    /\ last.arg["A"].kind = "rebalance"
    /\ last.arg["A"].bars = <<"s1">>
    /\ Get(strategies["A"].pos_data, "s2") = 2
    /\ Get(strategies["A"].target_data, "s2") = -1
    /\ LegPlaces("s2") = {}
    /\ LegPlaces("s1") # {}

\* the order ids the collaborator accepted in the requests of record l
AcceptedIds(l) == { l.sent[i].entry.orderid : i \in 1..Len(l.sent) } \ {0}

\* C14: send_order returns exactly the ids the order-routing collaborator
\* accepted (the template adds the returned ids to the active set) and records
\* exactly those in the correlation table, mapped to the submitting strategy;
\* a rejected request is neither returned nor recorded, and without a contract
\* nothing is forwarded, returned or recorded
C14_SendOrderIds ==
    [][ last'.op = "tick" =>
          LET call == last'.arg["A"]
              ids  == AcceptedIds(last')
          IN  call.kind = "rebalance" =>
                /\ \A i \in 1..Len(last'.sent) :
                      LET e == last'.sent[i].entry
                      IN  /\ call.gw = "nocontract" => (~e.forwarded /\ e.orderid = 0)
                          /\ call.gw = "reject" => (e.forwarded /\ e.orderid = 0)
                          /\ e.orderid # 0 => (e.forwarded /\ call.gw = "accept"
                                                /\ orderid_strategy_map[e.orderid] = NoStrategy)
                /\ \A o \in OrderIds :
                      orderid_strategy_map'[o] =
                         IF o \in ids THEN "A" ELSE orderid_strategy_map[o]
                /\ strategies'["A"].active_orderids =
                      strategies["A"].active_orderids \cup ids ]_vars

\* of two requests the collaborator took the first and refused the second
C14_Witness ==
    /\ last.op = "tick"
    /\ Len(last.sent) = 2
    /\ last.sent[1].entry.orderid = 1
    /\ last.sent[2].entry.orderid = 0 /\ last.sent[2].entry.forwarded
    /\ orderid_strategy_map[1] = "A"
    /\ strategies["A"].active_orderids = {1}

\* the cancel requests strategy `name` made in the step of record l
CancelsOf(l, name) ==
    LET own == SelectSeq(l.cancels, LAMBDA e : e.name = name)
    IN  [i \in 1..Len(own) |-> own[i].entry]

\* cancel requests for the ids of S in ascending order, made after `sends`
\* order requests
CancelRun(S, sends) ==
    LET ids == SetToSeq(S)
    IN  [i \in 1..Len(ids) |-> [orderid |-> ids[i], after |-> sends]]

\* C13 as stated: every rebalance_portfolio call issues a cancel request for
\* every order id of the strategy's active set
C13_CancelEveryActive ==
    [][ last'.op = "tick" =>
          \A n \in Registered :
             (Called(last', n, "on_tick") /\ last'.slices[n] # <<>>) =>
                \A o \in strategies[n].active_orderids :
                   \E i \in 1..Len(CancelsOf(last', n)) : CancelsOf(last', n)[i].orderid = o ]_vars

\* C13, amended: a rebalance_portfolio call of a trading strategy issues,
\* before any order of that rebalance, a cancel request for every order id of
\* the active set whose order the main engine knows, and for no other; a
\* strategy that is not trading issues none
C13_CancelKnownActive ==
    [][ last'.op = "tick" =>
          \A n \in Registered :
             (Called(last', n, "on_tick") /\ last'.slices[n] # <<>>) =>
                CancelsOf(last', n) =
                   IF strategies[n].trading
                   THEN CancelRun(strategies[n].active_orderids \cap oms_orders, 0)
                   ELSE <<>> ]_vars

\* a rebalance cancelled a working order and sent a new one
C13_Witness ==
    /\ last.op = "tick"
    /\ Called(last, "A", "on_tick")
    /\ last.slices["A"] # <<>>
    /\ CancelsOf(last, "A") # <<>>
    /\ LegsOf("A", "s1") # <<>>

\* C15: a tick reaches only strategies registered on its instrument; an order
\* or trade event reaches only the owner of its order id in the correlation
\* table, and none when no strategy owns the id
C15_EventRouting ==
    [][ /\ last'.op = "tick" =>
              \A i \in 1..Len(last'.calls) :
                 LET n == last'.calls[i].name
                 IN  /\ last'.calls[i].func = "on_tick"
                     /\ n \in Registered
                     /\ n \in Range(symbol_strategy_map[last'.name])
                     /\ last'.name \in Range(strategies[n].vt_symbols)
        /\ last'.op \in {"order", "trade"} =>
              LET owner == IF last'.arg.orderid \in DOMAIN orderid_strategy_map
                           THEN orderid_strategy_map[last'.arg.orderid]
                           ELSE NoStrategy
              IN  /\ Len(last'.calls) <= 1
                  /\ owner = NoStrategy => last'.calls = <<>>
                  /\ \A i \in 1..Len(last'.calls) :
                        /\ last'.calls[i].name = owner
                        /\ last'.calls[i].func =
                              IF last'.op = "order" THEN "update_order" ELSE "update_trade" ]_vars

\* an order event for an id of A reached A and not B, also registered
C15_Witness ==
    /\ last.op = "order"
    /\ last.calls = << [name |-> "A", func |-> "update_order"] >>
    /\ orderid_strategy_map[last.arg.orderid] = "A"
    /\ "B" \in Registered

\* an event of an order no strategy owns reached nobody, with ids on record
C15_WitnessUnowned ==
    /\ last.op = "trade"
    /\ last.arg.orderid = 0
    /\ last.calls = <<>>
    /\ \E o \in OrderIds : orderid_strategy_map[o] = "A"

\* C16: update_order stores the event's record under its order id; an order
\* whose last stored record is terminal is not in the active set; and an id in
\* the historical order map of a strategy stays in it
C16_OrderConfirmation ==
    [][ /\ \A n \in Names :
              (last'.op = "order" /\ last'.name = n /\ n \in Registered) =>
                  /\ last'.arg.orderid \in DOMAIN strategies'[n].orders
                  /\ strategies'[n].orders[last'.arg.orderid] = last'.arg.active
                  /\ ~last'.arg.active => last'.arg.orderid \notin strategies'[n].active_orderids
        /\ \A n \in Registered \cap DOMAIN strategies' :
              /\ DOMAIN strategies[n].orders \subseteq DOMAIN strategies'[n].orders
              /\ \A o \in DOMAIN strategies'[n].orders :
                    ~strategies'[n].orders[o] => o \notin strategies'[n].active_orderids ]_vars

\* a terminal update took the order out of the active set and into the map
C16_Witness ==
    /\ last.op = "order"
    /\ last.name = "A"
    /\ ~last.arg.active
    /\ "A" \in Registered
    /\ last.arg.orderid \in DOMAIN strategies["A"].orders
    /\ orderid_strategy_map[last.arg.orderid] = "A"
    /\ strategies["A"].active_orderids = {}

\* C17: add_strategy under a name already registered, or with a class name
\* the engine does not know, returns without changing the registry, the
\* routing table, any strategy's state or any file
C17_AddRefusedNoOp ==
    [][ (/\ last'.op = "add_strategy"
         /\ \/ last'.name \in Registered
            \/ last'.arg \notin Classes) =>
            /\ ~last'.result
            /\ last'.saved = {}
            /\ last'.published = <<>>
            /\ UNCHANGED engine ]_vars

\* a known class was added under the name of an inited strategy holding a
\* position: nothing moved
C17_Witness ==
    /\ last.op = "add_strategy"
    /\ last.name = "A"
    /\ last.arg \in Classes
    /\ ~last.result
    /\ "A" \in Registered
    /\ strategies["A"].inited
    /\ \E s \in DOMAIN strategies["A"].pos_data : strategies["A"].pos_data[s] # 0

\* an unknown class under a free name: nothing added
C17_WitnessUnknownClass ==
    /\ last.op = "add_strategy"
    /\ last.arg \notin Classes
    /\ last.name \notin Registered
    /\ Registered # {}

\* C18: after a successful remove_strategy the strategy is in no routing
\* list, no order id maps to it, and its name is gone from the registry, the
\* roster file and the snapshot file
C18_RemoveDetaches ==
    [][ (last'.op = "remove_strategy" /\ last'.result) =>
            /\ \A s \in Symbols : last'.name \notin Range(symbol_strategy_map'[s])
            /\ \A o \in OrderIds :
                  orderid_strategy_map[o] = last'.name =>
                     orderid_strategy_map'[o] = NoStrategy
            /\ last'.name \notin DOMAIN strategies'
            /\ last'.name \notin DOMAIN setting_file'
            /\ last'.name \notin data_file' ]_vars

\* C19: stop_strategy on a trading strategy whose on_stop succeeds leaves it
\* trading = false, inited = true; on_stop runs first, then a cancel request
\* goes out for every order id of the active set, those of orders submitted
\* inside on_stop included, then the snapshot is saved
C19_StopCancelsEveryActive ==
    [][ \A n \in Names :
          (/\ last'.op = "stop_strategy"
           /\ last'.name = n
           /\ last'.result
           /\ n \notin last'.raised) =>
              /\ last'.calls = << [name |-> n, func |-> "on_stop"] >>
              /\ ~strategies'[n].trading
              /\ strategies'[n].inited
              /\ "data" \in last'.saved
              /\ \A o \in strategies'[n].active_orderids :
                    \E i \in 1..Len(CancelsOf(last', n)) :
                       /\ CancelsOf(last', n)[i].orderid = o
                       /\ CancelsOf(last', n)[i].after =
                             Len(SelectSeq(last'.sent, LAMBDA e : e.name = n)) ]_vars

\* C20: initializations are serialized: a body of _init_strategy begins only
\* when no other is running, and the bodies begin in the order of the
\* init_strategy calls
C20_InitSerialized ==
    [][ /\ last'.op = "init_strategy" => init_queue' = Append(init_queue, last'.name)
        /\ last'.op \in {"init_begin", "init_refused", "init_keyerror"} =>
              /\ worker.pc = "idle"
              /\ init_queue # <<>>
              /\ last'.name = Head(init_queue)
              /\ init_queue' = Tail(init_queue)
        /\ last'.op \notin {"init_strategy", "init_begin", "init_refused", "init_keyerror"} =>
              init_queue' = init_queue
        /\ last'.op \in {"on_init", "init_done"} =>
              /\ worker.pc # "idle"
              /\ last'.name = worker.name ]_vars

\* the body for A runs on_init while the later call for B waits its turn
C20_Witness ==
    /\ last.op = "on_init"
    /\ last.name = "A"
    /\ worker.pc = "finish"
    /\ init_queue = << "B" >>

\* two calls waited in the queue and the first one made has begun
C20_WitnessOrder ==
    /\ last.op = "init_begin"
    /\ last.name = "B"
    /\ init_queue = << "A" >>

\* the minute a datetime falls in
SameMinute(a, b) == TruncMinute(a) = TruncMinute(b)

\* C21: a valid tick whose minute-truncated timestamp differs from that of
\* the instrument's previous tick emits exactly one bar, stamped on the
\* minute; a tick in the minute of the previous tick emits none
C21_OneBarPerCrossing ==
    [][ (/\ last'.op = "update_tick"
         /\ last'.arg.last_price # 0
         /\ last'.arg.symbol \in DOMAIN pbg.last_dts) =>
            IF SameMinute(pbg.last_dts[last'.arg.symbol], last'.arg.datetime)
            THEN last'.on_bar = <<>>
            ELSE /\ Len(last'.on_bar) = 1
                 /\ last'.on_bar[1].datetime.second = 0 ]_vars

\* C22: on the first tick of a new minute the bar handed out holds the ticks
\* of the closed minute only, and stays so; after the call the in-progress
\* bar of the instrument exists and is flat at the tick's last price
C22_CloseThenOpen ==
    [][ (/\ last'.op = "update_tick"
         /\ last'.on_bar # <<>>) =>
            LET k == last'.arg.symbol
                p == last'.arg.last_price
            IN  /\ last'.on_bar[1] = [pbg.bars[k] EXCEPT !.datetime = TruncMinute(@)]
                /\ last'.bar # None
                /\ last'.bar.symbol = k
                /\ pbg'.bars[k] # None
                /\ pbg'.bars[k] = last'.bar
                /\ last'.bar.open_price = p /\ last'.bar.high_price = p
                /\ last'.bar.low_price = p /\ last'.bar.close_price = p ]_vars

\* the prices of a bar are in order
Ordered(bar) ==
    /\ bar.high_price >= bar.close_price /\ bar.close_price >= bar.low_price
    /\ bar.high_price >= bar.open_price /\ bar.open_price >= bar.low_price

\* C23: after any sequence of valid ticks the in-progress bar of every
\* instrument and every bar handed to on_bar have high >= close >= low and
\* high >= open >= low
C23_PricesOrdered ==
    /\ \A k \in DOMAIN pbg.bars : pbg.bars[k] # None => Ordered(pbg.bars[k])
    /\ last.op = "update_tick" =>
          /\ \A i \in 1..Len(last.on_bar) : Ordered(last.on_bar[i])
          /\ last.bar # None => Ordered(last.bar)

\* a bar was handed out whose ticks had moved the price
C23_Witness ==
    /\ last.op = "update_tick"
    /\ Len(last.on_bar) = 1
    /\ last.on_bar[1].high_price > last.on_bar[1].low_price
    /\ last.on_bar[1].close_price > last.on_bar[1].open_price

\* an in-progress bar whose price went up and fell below the open
C23_WitnessInProgress ==
    /\ last.op = "update_tick"
    /\ last.on_bar = <<>>
    /\ last.bar # None
    /\ pbg.bars[last.arg.symbol] = last.bar
    /\ last.bar.high_price > last.bar.open_price
    /\ last.bar.open_price > last.bar.close_price

\* C24: the volume and turnover of a bar never decrease: a valid tick adds
\* max(cumulative value - previous tick's cumulative value, 0) to the bar it
\* goes into, so a drop of the counter adds 0; a tick without a valid last
\* price changes nothing in the generator
C24_VolumeFloored ==
    [][ last'.op = "update_tick" =>
          LET tick == last'.arg
              k    == tick.symbol
              old  == Lookup(pbg.bars, k)
              prev == Lookup(pbg.last_ticks, k)
              dv   == IF prev = None THEN 0
                      ELSE IF tick.volume > prev.volume THEN tick.volume - prev.volume ELSE 0
              dt   == IF prev = None THEN 0
                      ELSE IF tick.turnover > prev.turnover
                      THEN tick.turnover - prev.turnover ELSE 0
          IN  IF tick.last_price = 0
              THEN pbg' = pbg /\ last'.on_bar = <<>> /\ last'.bar = None
              ELSE /\ last'.bar.volume = (IF old = None THEN 0 ELSE old.volume) + dv
                   /\ last'.bar.turnover = (IF old = None THEN 0 ELSE old.turnover) + dt
                   /\ old # None =>
                         /\ last'.bar.volume >= old.volume
                         /\ last'.bar.turnover >= old.turnover
                   /\ last'.bar.volume >= 0 /\ last'.bar.turnover >= 0
                   /\ \A j \in DOMAIN pbg'.bars :
                         (j # k \/ last'.on_bar = <<>>) =>
                            pbg'.bars[j] = IF j = k THEN last'.bar ELSE pbg.bars[j] ]_vars

\* the cumulative counters dropped within a minute and the bar kept the
\* volume and turnover it had
C24_Witness ==
    /\ last.op = "update_tick"
    /\ last.arg.last_price # 0
    /\ last.prev # None
    /\ last.arg.volume < last.prev.volume
    /\ last.arg.turnover < last.prev.turnover
    /\ last.on_bar = <<>>
    /\ last.bar.volume > 0
    /\ last.bar.turnover > 0
    /\ pbg.bars[last.arg.symbol] = last.bar

\* a tick without a valid last price came after valid ones and was dropped
C24_WitnessNoPrice ==
    /\ last.op = "update_tick"
    /\ last.arg.last_price = 0
    /\ last.prev # None
    /\ last.arg.volume > last.prev.volume

RECURSIVE SumVolume(_)
SumVolume(run) == IF run = <<>> THEN 0 ELSE Head(run).volume + SumVolume(Tail(run))

RECURSIVE SumTurnover(_)
SumTurnover(run) == IF run = <<>> THEN 0 ELSE Head(run).turnover + SumTurnover(Tail(run))

\* C25: update_bar in minute mode with window N emits a window bar on the
\* bars whose (minute + 1) mod N = 0 and on no other; the bar has the open of
\* the first bar since the instrument's previous emission, the highest high,
\* the lowest low, the last close and the summed volume of those bars
C25_MinuteWindow ==
    last.op = "update_bar" =>
        LET bar == last.arg
            run == last.runs[bar.symbol]
        IN  IF (bar.datetime.minute + 1) % pbg.window = 0
            THEN /\ Len(last.on_window_bar) = 1
                 /\ LET w == last.on_window_bar[1]
                    IN  /\ w.symbol = bar.symbol
                        /\ w.open_price = run[1].open_price
                        /\ \A i \in 1..Len(run) : w.high_price >= run[i].high_price
                        /\ \E i \in 1..Len(run) : w.high_price = run[i].high_price
                        /\ \A i \in 1..Len(run) : w.low_price <= run[i].low_price
                        /\ \E i \in 1..Len(run) : w.low_price = run[i].low_price
                        /\ w.close_price = bar.close_price
                        /\ w.volume = SumVolume(run)
                        /\ w.turnover = SumTurnover(run)
            ELSE last.on_window_bar = <<>>

\* minutes 0..4 into a window of 5: the one window bar comes at minute 4
C25_Witness ==
    /\ last.op = "update_bar"
    /\ pbg.window = 5
    /\ last.arg.datetime.minute = 4
    /\ Len(last.runs[last.arg.symbol]) = 5
    /\ \A i \in 1..5 : last.runs[last.arg.symbol][i].datetime.minute = i - 1
    /\ Len(last.on_window_bar) = 1
    /\ last.on_window_bar[1].high_price > last.on_window_bar[1].close_price

\* C26: in hour mode a bar of minute 59, or a bar of another hour than the
\* running hour bar, closes the running hour bar and emits it: with window 1
\* the window callback gets exactly one bar, stamped on the hour of the
\* running bar, and the call returns normally
C26_HourRollover ==
    (/\ last.op = "update_bar"
     /\ last.running # None
     /\ \/ last.arg.datetime.minute = 59
        \/ last.arg.datetime.hour # last.running.datetime.hour) =>
        /\ ~last.raised
        /\ pbg.window = 1 =>
              /\ Len(last.on_window_bar) = 1
              /\ last.on_window_bar[1].datetime = last.running.datetime

\* the boundaries up to dt at which load_bar gave a bar of instrument k
RealUpTo(k, dt) == { d \in 1..dt : << d, k >> \in DOMAIN replay.history_data }

\* C27: at each boundary the slice handed to on_bars has an entry for exactly
\* the instruments whose first real bar is at or before the boundary: the
\* real bar where there is one, else a bar stamped with the boundary, of
\* volume 0 and flat at the close of the instrument's last real bar
C27_ForwardFill ==
    last.op = "on_bars" =>
        \A k \in Range(replay.vt_symbols) :
            LET real == RealUpTo(k, last.dt)
            IN  IF real = {} THEN k \notin DOMAIN last.bars
                ELSE /\ k \in DOMAIN last.bars
                     /\ LET d == CHOOSE x \in real : \A y \in real : y <= x
                            known == replay.history_data[<< d, k >>]
                            bar == last.bars[k]
                        IN  IF d = last.dt THEN bar = known
                            ELSE /\ bar.symbol = k
                                 /\ bar.datetime = last.dt
                                 /\ bar.volume = 0
                                 /\ bar.open_price = known.close_price
                                 /\ bar.high_price = known.close_price
                                 /\ bar.low_price = known.close_price
                                 /\ bar.close_price = known.close_price

\* s1 has its one bar at the first boundary and s2 bars at the next two: the
\* entry of s1 is filled, and filled again from the filled bar
C27_Witness ==
    /\ last.op = "on_bars"
    /\ last.dt = 3
    /\ RealUpTo("s2", 3) = {2, 3}
    /\ RealUpTo("s1", 3) = {1}
    /\ replay.history_data[<< 1, "s1" >>].open_price # replay.history_data[<< 1, "s1" >>].close_price
    /\ "s1" \in DOMAIN last.bars
    /\ last.bars["s1"].volume = 0

\* the first boundary has a bar of s1 only: s2 is absent from the slice
C27_WitnessAbsent ==
    /\ last.op = "on_bars"
    /\ RealUpTo("s2", last.dt) = {}
    /\ DOMAIN last.bars = {"s1"}

\* C28: update_trade adds the volume of a long fill to the Position of the
\* fill's instrument and subtracts that of a short fill, starting from 0 when
\* the instrument has no entry; the Position of every other instrument, the
\* targets, the order map and the active set stay as they were
C28_UpdateTrade ==
    [][ \A n \in Registered :
          (last'.op = "trade" /\ Called(last', n, "update_trade")) =>
              LET trade == last'.arg
                  old == strategies[n]
                  new == strategies'[n]
                  was == IF trade.symbol \in DOMAIN old.pos_data
                         THEN old.pos_data[trade.symbol] ELSE 0
              IN  /\ new.pos_data[trade.symbol] =
                        IF trade.direction = "LONG" THEN was + trade.volume
                        ELSE was - trade.volume
                  /\ DOMAIN new.pos_data = DOMAIN old.pos_data \cup {trade.symbol}
                  /\ \A k \in DOMAIN old.pos_data :
                        k # trade.symbol => new.pos_data[k] = old.pos_data[k]
                  /\ new.target_data = old.target_data
                  /\ new.orders = old.orders
                  /\ new.active_orderids = old.active_orderids ]_vars

\* a short fill of s2 on a strategy without Position entries: s2 is at minus
\* the volume, and no entry for s1 appeared
C28_Witness ==
    /\ last.op = "trade"
    /\ Called(last, "A", "update_trade")
    /\ last.arg.direction = "SHORT"
    /\ last.arg.symbol = "s2"
    /\ strategies["A"].pos_data = [k \in {"s2"} |-> 0 - last.arg.volume]

\* a long fill of s1 on a strategy holding both instruments
C28_WitnessOther ==
    /\ last.op = "trade"
    /\ Called(last, "A", "update_trade")
    /\ last.arg.direction = "LONG"
    /\ last.arg.symbol = "s1"
    /\ strategies["A"].pos_data = [k \in Symbols |-> IF k = "s1" THEN 3 ELSE -2]

\* the worker is past on_init of strategy n and has the restore before it
Restoring(n) == worker.pc = "finish" /\ worker.name = n /\ ~worker.orphan

\* C29: the initialization worker writes Position, Target and the active set
\* of a strategy only inside call_strategy_func, and no trade is applied to a
\* strategy on the dispatch thread while the worker has such a write to make
C29_WorkerWritesInWrapper ==
    [][ /\ \A n \in Registered :
              (last'.op = "init_done" /\ last'.name = n /\ last'.result) =>
                  /\ strategies'[n].pos_data = strategies[n].pos_data
                  /\ strategies'[n].target_data = strategies[n].target_data
                  /\ strategies'[n].active_orderids = strategies[n].active_orderids
        /\ \A n \in Registered :
              (last'.op = "trade" /\ Called(last', n, "update_trade")) => ~Restoring(n) ]_vars

\* C30: init_strategy returns without running any part of the
\* initialization: it only queues the call; and the dispatch of a tick, order
\* or trade event neither waits for the worker nor moves it
C30_InitOffDispatch ==
    [][ /\ last'.op = "init_strategy" =>
              /\ last'.calls = <<>>
              /\ strategies' = strategies
              /\ worker' = worker
              /\ init_queue' = Append(init_queue, last'.name)
        /\ last'.op \in {"tick", "order", "trade"} =>
              /\ worker' = worker
              /\ init_queue' = init_queue ]_vars

\* while the worker is inside on_init of A, a tick of s2 reached B
C30_Witness ==
    /\ last.op = "tick"
    /\ last.name = "s2"
    /\ Called(last, "B", "on_tick")
    /\ worker.pc = "on_init"
    /\ worker.name = "A"
\* the sources load_bar may ask, in priority order
SourceOrder(contract) ==
    IF contract = "history" THEN << "gateway", "datafeed", "database" >>
    ELSE << "datafeed", "database" >>

\* what the source gives when asked
SourceData(source) ==
    IF source = "gateway" THEN replay[2]
    ELSE IF source = "datafeed" THEN replay[3] ELSE replay[4]

\* C31: load_bar asks the live-feed history query (when the contract offers
\* it), then the datafeed, then the database, going to the next source exactly
\* when the one before gave nothing, and returns what the last source asked gave
C31_SourceFallback ==
    last.op = "load_bar" =>
        LET order == SourceOrder(replay[1])
            n == Len(last.queried)
        IN  /\ n >= 1 /\ n <= Len(order)
            /\ last.queried = SubSeq(order, 1, n)
            /\ \A i \in 1..(n - 1) : SourceData(order[i]) = <<>>
            /\ n < Len(order) => SourceData(order[n]) # <<>>
            /\ last.data = SourceData(order[n])
\* the timestamps of the bars load_bar returned, over all instruments
ReturnedStamps == UNION { Range(last.returned[k]) : k \in Symbols }

\* C32: load_bars calls on_bars once per distinct timestamp of the returned
\* bars, in strictly ascending order, whatever the order of the instruments
\* and of the returned lists; a raise of on_bars does not leave the fault
\* boundary, and the replay goes on to the end of the boundaries
C32_ReplayInTimeOrder ==
    /\ [](LET called == last.called
              n == Len(called)
          IN  /\ \A i \in 1..n, j \in 1..n : i < j => called[i] < called[j]
              /\ Range(called) \subseteq ReturnedStamps
              /\ \A d \in ReturnedStamps \ Range(called) : \A i \in 1..n : called[i] < d
              /\ Range(replay.dts) = ReturnedStamps \ Range(called)
              /\ ~last.escaped)
    /\ <>(Range(last.called) = ReturnedStamps)

\* s2 is loaded first and returned its bars latest first, s1 shares one
\* timestamp with it; on_bars raised at the first boundary, and the replay
\* has called on_bars at all three
C32_Witness ==
    /\ last.op = "on_bars"
    /\ replay.vt_symbols = << "s2", "s1" >>
    /\ last.returned["s2"] = << 3, 1 >>
    /\ last.returned["s1"] = << 2, 1 >>
    /\ last.called = << 1, 2, 3 >>
    /\ ~last.s.inited
    /\ replay.dts = <<>>
\* C33: the restore merges the persisted pos_data and target_data into the
\* strategy's maps (a persisted key takes the persisted value, any other key
\* keeps its value), assigns every other persisted variable, and does nothing
\* without a snapshot
C33_RestoreMerges ==
    last.op = "restore" =>
        LET s == last.s
            data == last.data
            restored == last.restored
        IN  IF data = NoSnapshot THEN restored = s
            ELSE /\ DOMAIN restored = DOMAIN s
                 /\ \A name \in {"pos_data", "target_data"} :
                       /\ DOMAIN restored[name] = DOMAIN s[name] \cup DOMAIN data[name]
                       /\ \A k \in DOMAIN data[name] : restored[name][k] = data[name][k]
                       /\ \A k \in DOMAIN s[name] \ DOMAIN data[name] :
                             restored[name][k] = s[name][k]
                 /\ restored["fast_window"] =
                       IF "fast_window" \in DOMAIN data THEN data["fast_window"]
                       ELSE s["fast_window"]
                 /\ restored["inited"] = s["inited"]
                 /\ restored["trading"] = s["trading"]

\* on_init left positions in s1 and s2, the snapshot holds s1 only: s1 takes
\* the persisted value, s2 keeps its own, and fast_window is assigned
C33_Witness ==
    /\ last.op = "restore"
    /\ last.data # NoSnapshot
    /\ last.s["pos_data"] = [k \in Symbols |-> IF k = "s1" THEN 2 ELSE -1]
    /\ last.data["pos_data"] = [k \in {"s1"} |-> 5]
    /\ last.restored["pos_data"] = [k \in Symbols |-> IF k = "s1" THEN 5 ELSE -1]
    /\ last.s["fast_window"] = 0
    /\ last.restored["fast_window"] = 7

\* no snapshot: the strategy is as on_init left it
C33_WitnessNoSnapshot ==
    /\ last.op = "restore"
    /\ last.data = NoSnapshot
    /\ last.restored["pos_data"] = [k \in {"s1"} |-> 2]
\* C34: the bars a generator emits for s1 are the same with and without
\* updates of s2 in between, and in hour mode a window bar of s1 is emitted
\* at every Nth hour bar of s1 that closes
C34_NoCrossInstrumentState ==
    /\ last.emitted_both = last.emitted_alone
    /\ pbg.both.interval = "HOUR" =>
          Len(last.emitted_both) = last.closed \div pbg.both.window

\* the part of C34 that is about interleaving alone
C34_SameWithAndWithout == last.emitted_both = last.emitted_alone
\* C35: in every reachable state a registered strategy that is trading is
\* inited
C35_TradingImpliesInited ==
    \A n \in Registered : strategies[n].trading => strategies[n].inited
\* the order and cancel requests strategy n made in the step l records
RequestsOf(l, n) ==
    { i \in 1..Len(l.sent) : l.sent[i].name = n }
        \cup { Len(l.sent) + i : i \in { j \in 1..Len(l.cancels) : l.cancels[j].name = n } }

\* the part of C36 that is the guard of the template: a step on a strategy
\* that is not trading makes no request for it and adds nothing to its
\* active set
C36_SendGuard ==
    [][ \A n \in Registered \cap DOMAIN strategies' :
          ~strategies[n].trading =>
              /\ strategies'[n].active_orderids \subseteq strategies[n].active_orderids
              /\ RequestsOf(last', n) = {} ]_vars

\* C36: a strategy that is not trading submits no order and its active set
\* does not grow; in particular the on_init of init_strategy, with the
\* replay of load_bars in it, makes no order and no cancel request
C36_NoOrdersUnlessTrading ==
    [][ \A n \in Registered \cap DOMAIN strategies' :
          /\ ~strategies[n].trading =>
                /\ strategies'[n].active_orderids \subseteq strategies[n].active_orderids
                /\ RequestsOf(last', n) = {}
          /\ (last'.op = "on_init" /\ last'.name = n) =>
                /\ strategies'[n].active_orderids \subseteq strategies[n].active_orderids
                /\ RequestsOf(last', n) = {} ]_vars
\* C37: once remove_strategy has removed a strategy the worker does not call
\* its on_init, does not finish its initialization (inited = True and the
\* strategy event), and does not fail on the lookup of its name
C37_RemovedNeverInitialized ==
    /\ last.op # "init_keyerror"
    /\ ~Called(last, Orphan, "on_init")
    /\ last.op = "init_done" => last.result

\* the parts of C37, one by one
C37_NoLookupError == last.op # "init_keyerror"

C37_NoOnInitAfterRemoval == ~Called(last, Orphan, "on_init")

C37_NoFinishAfterRemoval == last.op = "init_done" => last.result
\* the places of strategy n in the routing list of an instrument
Places(list, n) == { i \in 1..Len(list) : list[i] = n }

\* the on_tick calls of strategy n in the step l records
TickCalls(l, n) ==
    { i \in 1..Len(l.calls) : l.calls[i].name = n /\ l.calls[i].func = "on_tick" }

\* C38: after any adds and removals a strategy is in the routing list of an
\* instrument exactly once if it is registered and the instrument is one of
\* its instruments, and not at all otherwise; a tick reaches a strategy at
\* most once
C38_RoutingTable ==
    /\ \A k \in Symbols, n \in Names :
          Cardinality(Places(symbol_strategy_map[k], n)) =
              IF n \in Registered /\ k \in Range(strategies[n].vt_symbols) THEN 1 ELSE 0
    /\ last.op = "tick" => \A n \in Names : Cardinality(TickCalls(last, n)) <= 1

\* the parts of C38, one by one
C38_ListedOnce ==
    \A k \in Symbols, n \in Names : Cardinality(Places(symbol_strategy_map[k], n)) <= 1

C38_ListedIffSubscribed ==
    \A k \in Symbols, n \in Names :
        n \in Range(symbol_strategy_map[k]) <=>
            (n \in Registered /\ k \in Range(strategies[n].vt_symbols))

C38_TickOnce ==
    last.op = "tick" => \A n \in Names : Cardinality(TickCalls(last, n)) <= 1
\* the orders of the latest rebalance
Issued == { o \in 1..Len(replay.book) : replay.book[o].cycle = replay.cycle }

\* the latest rebalance is done: its orders have filled, and no fill of an
\* earlier order has come in since
Settled ==
    /\ replay.cycle >= 1
    /\ Issued \subseteq replay.vt_tradeids
    /\ ~replay.stale

\* the position of k has gone past its target since the latest rebalance
Overshoot(k) ==
    LET b == replay.before[k]
        t == GetTarget(replay.s, k)
        p == GetPos(replay.s, k)
    IN  (t >= b /\ p > t) \/ (t <= b /\ p < t)

\* every volume the rebalances asked for is a multiple of the lot size
WholeLots ==
    \A o \in 1..Len(replay.book) : replay.book[o].req.volume = replay.book[o].asked

\* C39, as stated: once exactly the orders of a rebalance have filled,
\* Position = Target for every instrument of its slice, and Position goes
\* past Target only with the fill of an order of an earlier rebalance
C39_Convergence ==
    /\ Settled => \A k \in Range(replay.slice) : GetPos(replay.s, k) = GetTarget(replay.s, k)
    /\ \A k \in Symbols : (replay.cycle >= 1 /\ Overshoot(k)) => replay.stale

\* C39, for volumes that are multiples of the contract's lot size
C39_ConvergenceWholeLots ==
    WholeLots =>
        /\ Settled =>
              \A k \in Range(replay.slice) : GetPos(replay.s, k) = GetTarget(replay.s, k)
        /\ \A k \in Symbols : (replay.cycle >= 1 /\ Overshoot(k)) => replay.stale

\* the second rebalance closed a short and opened a long, both legs filled
C39_Witness ==
    /\ WholeLots /\ Settled
    /\ replay.cycle = 2
    /\ Cardinality(Issued) = 2
    /\ replay.before["s1"] < 0
    /\ GetPos(replay.s, "s1") = 3

\* an order of the first rebalance filled after the second: Position is past
\* Target
C39_WitnessStale ==
    /\ WholeLots /\ replay.stale
    /\ replay.cycle = 2
    /\ Overshoot("s1")
\* the step l records called nothing, asked for no order and no cancel,
\* published and saved nothing
Quiet(l) ==
    /\ l.calls = <<>> /\ l.sent = <<>> /\ l.cancels = <<>>
    /\ l.published = <<>> /\ l.saved = {}

\* C40: _init_strategy of an inited strategy calls no on_init and restores
\* nothing, start_strategy of a trading strategy calls no on_start,
\* stop_strategy of a strategy that is not trading calls no on_stop, cancels
\* and saves nothing; each leaves the strategies and the snapshots as they were
C40_RepeatedCallsNoOps ==
    [][ /\ ( /\ last'.op \in {"init_begin", "init_refused", "init_keyerror"}
              /\ last'.name \in Registered
              /\ strategies[last'.name].inited )
            => ( /\ last'.op = "init_refused" /\ Quiet(last')
                 /\ worker' = Idle
                 /\ strategies' = strategies )
        /\ ( /\ last'.op = "start_strategy"
              /\ strategies[last'.name].trading )
            => ( Quiet(last') /\ strategies' = strategies )
        /\ ( /\ last'.op = "stop_strategy"
              /\ ~strategies[last'.name].trading )
            => ( /\ Quiet(last') /\ strategies' = strategies
                 /\ strategy_data' = strategy_data /\ data_file' = data_file ) ]_vars

\* the worker turned a second initialization of A down
C40_Witness ==
    /\ last.op = "init_refused" /\ last.name = "A"
    /\ strategies["A"].inited /\ worker = Idle

\* a start of A, trading, was turned down
C40_WitnessStart ==
    /\ last.op = "start_strategy" /\ last.name = "A" /\ ~last.result
    /\ strategies["A"].inited /\ strategies["A"].trading

\* a stop of A, inited and not trading, was turned down
C40_WitnessStop ==
    /\ last.op = "stop_strategy" /\ last.name = "A" /\ ~last.result
    /\ strategies["A"].inited /\ ~strategies["A"].trading
====
